---- MODULE Spec2Model ----
(***************************************************************************)
(* A model of the wlog logger (github.com/vargspjut/wlog): the core logger *)
(* of wlog.go, the scoped logger derived from it by WithScope, and the     *)
(* formatters of formatter.go.                                             *)
(*                                                                         *)
(* Strings the code inspects character by character (field names, mapped   *)
(* short names) are sequences of one-character strings; opaque strings     *)
(* (messages, field values) are TLA+ strings.                              *)
(***************************************************************************)
EXTENDS Integers, Sequences, FiniteSets, TLC

VARIABLES
    writer,        \* logger.writer: "nil" or the name of an io.Writer
    logLevel,      \* logger.logLevel
    stdOut,        \* logger.stdOut
    formatter,     \* logger.formatter
    fields,        \* logger.fields
    fieldMapping,  \* logger.fieldMapping
    hooks,         \* logger.hooks: level -> sequence of installed hooks
    scopes,        \* the scopedLogger values derived so far, in order: the
                   \* fields of each and, for the record, the logger's
                   \* mapping when it was derived (mappingThen)
    exited,        \* TRUE once os.Exit(1) has been called
    last,          \* what the last call did: its arguments and what it
                   \* formatted, wrote and called
    calls,         \* the calls the threads have made so far
    pc,            \* where each thread is in the call it is making
    frame,         \* the arguments and local variables of that call
    mutex,         \* logger.mutex: 0 when free, else the thread that holds it
    buffers,       \* the contents of the bytes.Buffers bufferPool has made
    pool,          \* the buffers that are in bufferPool
    sink,          \* the last Write call the writer received
    access,        \* the fields of the logger the last step of a thread
                   \* read or wrote, and whether it held the mutex
    clock,         \* the latest value time.Now() has returned to a thread,
                   \* as its place among the times (0 before the first)
    held,          \* the Fields map a caller keeps in a variable of its own
    sameMap        \* TRUE when logger.fields is that very map, not a copy

\* the state of the threads and of what they share besides the logger
\* the time and the map of the caller
worldVars == <<clock, held, sameMap>>

threadVars == <<calls, pc, frame, mutex, buffers, pool, sink, access, worldVars>>

vars == <<writer, logLevel, stdOut, formatter, fields, fieldMapping, hooks,
          scopes, exited, last, calls, pc, frame, mutex, buffers, pool, sink,
          access, clock, held, sameMap>>

----------------------------------------------------------------------------
(* Bounds of the model *)

\* the most hooks InstallHook installs in one behaviour
MaxHooks == 3
\* the most scoped loggers derived in one behaviour
MaxScopes == 2
\* the threads that call the logger concurrently
NumThreads == 2
\* the most calls the threads make in one behaviour
MaxCalls == 3

----------------------------------------------------------------------------
(* LogLevel *)

Dbg == 0
Nfo == 1
Wrn == 2
Err == 3
Ftl == 4

LogLevel == Dbg..Ftl

LevelString(l) ==
    CASE l = Dbg -> "Debug"
      [] l = Nfo -> "Info"
      [] l = Wrn -> "Warning"
      [] l = Err -> "Error"
      [] l = Ftl -> "Fatal"
      [] OTHER   -> "Unknown"

----------------------------------------------------------------------------
(* Strings, field sets and field mappings *)

kMessage   == <<"m", "e", "s", "s", "a", "g", "e">>
kTimestamp == <<"t", "i", "m", "e", "s", "t", "a", "m", "p">>
kLevel     == <<"l", "e", "v", "e", "l">>
kName      == <<"n", "a", "m", "e">>
kExtra     == <<"e", "x", "t", "r", "a">>

\* strings.HasPrefix(v, "@")
HasPrefixAt(v) == Len(v) >= 1 /\ v[1] = "@"

\* the field names callers use, and the values they give them
FieldKeys == {kName, kExtra, kLevel}
FieldVals == {"a", "b"}

\* the empty map, Fields{} or FieldMapping{}
EmptyMap == <<>>

\* a Fields value is a Go map: nil, or a map from some field names to values
\* (a nil map reads as an empty one)
NilFields == [nil |-> TRUE, m |-> EmptyMap]
MkFields(m) == [nil |-> FALSE, m |-> m]
FieldSets == UNION {[D -> FieldVals] : D \in SUBSET FieldKeys}
FieldsArgs == {NilFields} \cup {MkFields(m) : m \in FieldSets}

\* the value of an absent argument or writer
Nil == "nil"

\* the short names callers map to
ShortNames == {<<"n">>, <<"@", "l">>}

\* the FieldMapping values callers pass to SetFieldMapping
MappingArgs == UNION {[D -> ShortNames] : D \in SUBSET {kName, kLevel}}

\* the messages callers log
Msgs == {"data"}

\* the values time.Now() returns, as getTimestamp renders them
Times == {"t1", "t2"}

\* the messages of the callers of the Text formatter: an empty one, one that
\* ends in a newline and one that does not
TextMsgs == {"", "low disk", "line\n"}

\* the bytes of a Go string: the strings the model writes are listed, a
\* one-character field value is its own byte and a rendered timestamp is
\* kept as one token
Chars(str) ==
    CASE str = ""        -> <<>>
      [] str = "data"    -> <<"d", "a", "t", "a">>
      [] str = "low disk" -> <<"l", "o", "w", " ", "d", "i", "s", "k">>
      [] str = "line\n"  -> <<"l", "i", "n", "e", "\n">>
      [] str = "DBG "    -> <<"D", "B", "G", " ">>
      [] str = "NFO "    -> <<"N", "F", "O", " ">>
      [] str = "WRN "    -> <<"W", "R", "N", " ">>
      [] str = "ERR "    -> <<"E", "R", "R", " ">>
      [] str = "FTL "    -> <<"F", "T", "L", " ">>
      [] str = "Debug"   -> <<"D", "e", "b", "u", "g">>
      [] str = "Info"    -> <<"I", "n", "f", "o">>
      [] str = "Warning" -> <<"W", "a", "r", "n", "i", "n", "g">>
      [] str = "Error"   -> <<"E", "r", "r", "o", "r">>
      [] str = "Fatal"   -> <<"F", "a", "t", "a", "l">>
      [] str = "Unknown" -> <<"U", "n", "k", "n", "o", "w", "n">>
      [] OTHER           -> <<str>>

\* the bytes field names are made of, in increasing order
KeyBytes ==
    <<"@", "a", "b", "c", "d", "e", "f", "g", "h", "i", "j", "k", "l", "m",
      "n", "o", "p", "q", "r", "s", "t", "u", "v", "w", "x", "y", "z">>

\* the place of each byte in that order
ByteRank ==
    [c \in {KeyBytes[i] : i \in DOMAIN KeyBytes} |->
        CHOOSE i \in DOMAIN KeyBytes : KeyBytes[i] = c]

ByteOf(c) == ByteRank[c]

\* a < b as Go compares strings
RECURSIVE StringLess(_, _)
StringLess(a, b) ==
    IF a = <<>> THEN b # <<>>
    ELSE IF b = <<>> THEN FALSE
    ELSE IF a[1] = b[1] THEN StringLess(Tail(a), Tail(b))
    ELSE ByteOf(a[1]) < ByteOf(b[1])

\* the formatters: TextFormatter{}, JSONFormatter{} and JSONFormatter{Compact: true}
TextFormatter == "Text"
JSONFormatter == "JSON"
JSONCompact == "JSONCompact"
Formatters == {TextFormatter, JSONFormatter, JSONCompact}

Writers == {Nil, "buf"}

\* an *os.File, a writer whose Write can fail
FileWriter == "file"

\* a field value encoding/json cannot marshal, such as a channel
Unmarshalable == {"chan"}

\* for k, v := range src { dst[k] = v }
CopyInto(dst, src) ==
    [k \in DOMAIN dst \cup DOMAIN src |-> IF k \in DOMAIN src THEN src[k] ELSE dst[k]]

\* the orders in which a range loop may visit the keys of a map
RangeOrders(m) ==
    {o \in [1..Cardinality(DOMAIN m) -> DOMAIN m] :
        \A i, j \in 1..Cardinality(DOMAIN m) : i # j => o[i] # o[j]}

----------------------------------------------------------------------------
(* The observation of a call *)

NoEntry == <<"no entry">>

Quiet(op) ==
    [op |-> op, src |-> 0, level |-> -1, msg |-> "", now |-> "", min |-> -1,
     arg |-> Nil, pre |-> Nil, formatted |-> FALSE, entry |-> NoEntry, fmtErr |-> FALSE,
     wrote |-> FALSE, bytes |-> <<>>, writeCalls |-> 0, writeErr |-> FALSE,
     stream |-> "none", hookCalls |-> <<>>, diag |-> FALSE]

\* the threads, and the message each logs
Threads == 1..NumThreads
CallerMsg(t) == IF t = 1 THEN "data" ELSE IF t = 2 THEN "low disk" ELSE "line\n"

\* a thread that is in no call; outer holds the frame of the emission whose
\* hook made the call, when a hook made it
NoFrame ==
    [op |-> "none", src |-> 0, level |-> -1, msg |-> "", arg |-> Nil, now |-> "",
     fields |-> NilFields, mapping |-> EmptyMap, fmt |-> Nil, buf |-> 0, tsbuf |-> 0,
     hooks |-> <<>>, hook |-> 0, stage |-> 0, outer |-> <<>>]

\* a writer that has received nothing
NoWrite ==
    [thread |-> 0, bytes |-> <<>>, fmt |-> Nil, level |-> -1, msg |-> "", now |-> "",
     fields |-> NilFields, mapping |-> EmptyMap]

----------------------------------------------------------------------------
(* newLogger *)

DefaultFieldMapping ==
    (kLevel :> <<"@", "l">>) @@ (kTimestamp :> <<"@", "t">>) @@ (kMessage :> <<"@", "m">>)

newLogger(w, l, s) ==
    /\ writer = w
    /\ logLevel = l
    /\ stdOut = s
    /\ formatter = TextFormatter
    /\ fields = MkFields(EmptyMap)
    /\ fieldMapping = DefaultFieldMapping
    /\ hooks = [lv \in LogLevel |-> <<>>]
    /\ scopes = <<>>
    /\ exited = FALSE
    /\ last = Quiet("New")
    /\ calls = 0
    /\ pc = [t \in Threads |-> "idle"]
    /\ frame = [t \in Threads |-> NoFrame]
    /\ mutex = 0
    /\ buffers = <<>>
    /\ pool = {}
    /\ sink = NoWrite
    /\ access = {}
    /\ clock = 0
    /\ held = NilFields
    /\ sameMap = FALSE

----------------------------------------------------------------------------
(* Mutators of the core logger *)

\* a SetFieldMapping whose new entries replace the existing ones
SetFieldMappingNewWins(old, fm) == CopyInto(CopyInto(EmptyMap, old), fm)

SetFieldMappingResult(old, fm) ==
    \* first the custom mappings (an entry whose value starts with "@" is
    \* stored like the others), then the existing ones over them
    CopyInto(CopyInto(EmptyMap, fm), old)

SetFieldMapping(fm) ==
    /\ ~exited
    /\ fieldMapping' = SetFieldMappingResult(fieldMapping, fm)
    /\ last' = [Quiet("SetFieldMapping") EXCEPT
                    !.arg = fm, !.pre = fieldMapping,
                    \* "value cannot be prefixed with @" on stderr
                    !.diag = \E k \in DOMAIN fm : HasPrefixAt(fm[k])]
    /\ UNCHANGED <<writer, logLevel, stdOut, formatter, fields, hooks, scopes, exited>>
    /\ UNCHANGED threadVars

\* a WithScope that copies the new fields first and the logger's over them
WithScopeFieldsParentWins(parent, f) ==
    MkFields(CopyInto(CopyInto(EmptyMap, f.m), parent.m))

\* a WithScope whose copy of the logger's fields stops after the first key
WithScopeFieldsPartial(parent, f) ==
    LET first == {k \in DOMAIN parent.m : \A j \in DOMAIN parent.m : j = k \/ StringLess(k, j)}
    IN  MkFields(CopyInto([k \in first |-> parent.m[k]], f.m))

WithScopeFields(parent, f) ==
    \* scopeFields := Fields{}, then the logger's fields, then the new ones
    MkFields(CopyInto(CopyInto(EmptyMap, parent.m), f.m))

\* a WithScope that copies the new fields into the map of the logger and
\* gives that map to the scope
WithScopeInPlace(f) ==
    /\ ~exited
    /\ Len(scopes) < MaxScopes
    /\ fields' = WithScopeFields(fields, f)
    /\ scopes' = Append(scopes, [logger |-> 0, fields |-> WithScopeFields(fields, f),
                                 mappingThen |-> fieldMapping])
    /\ last' = [Quiet("WithScope") EXCEPT !.arg = f, !.src = Len(scopes) + 1]
    /\ UNCHANGED <<writer, logLevel, stdOut, formatter, fieldMapping, hooks, exited>>
    /\ UNCHANGED threadVars

WithScope(f) ==
    /\ ~exited
    /\ Len(scopes) < MaxScopes
    /\ scopes' = Append(scopes, [logger |-> 0, fields |-> WithScopeFields(fields, f),
                                 mappingThen |-> fieldMapping])
    /\ last' = [Quiet("WithScope") EXCEPT !.arg = f, !.src = Len(scopes) + 1]
    /\ UNCHANGED <<writer, logLevel, stdOut, formatter, fields, fieldMapping, hooks, exited>>
    /\ UNCHANGED threadVars

\* a SetFields that installs nil as it is
SetFieldsResultKeepsNil(f) == f

SetFieldsResult(f) == IF f.nil THEN MkFields(EmptyMap) ELSE f

\* a SetFields that also installs the JSON formatter
SetFieldsInstallsJSON(f) ==
    /\ ~exited
    /\ fields' = SetFieldsResult(f)
    /\ formatter' = JSONFormatter
    /\ last' = [Quiet("SetFields") EXCEPT !.arg = f]
    /\ UNCHANGED <<writer, logLevel, stdOut, fieldMapping, hooks, scopes, exited>>
    /\ UNCHANGED threadVars

SetFields(f) ==
    /\ ~exited
    /\ fields' = SetFieldsResult(f)
    /\ last' = [Quiet("SetFields") EXCEPT !.arg = f]
    /\ UNCHANGED <<writer, logLevel, stdOut, formatter, fieldMapping, hooks, scopes, exited>>
    /\ UNCHANGED threadVars

SetFormatter(fmt) ==
    /\ ~exited
    /\ formatter' = fmt
    /\ last' = [Quiet("SetFormatter") EXCEPT !.arg = fmt]
    /\ UNCHANGED <<writer, logLevel, stdOut, fields, fieldMapping, hooks, scopes, exited>>
    /\ UNCHANGED threadVars

SetWriter(w) ==
    /\ ~exited
    /\ writer' = w
    /\ last' = [Quiet("SetWriter") EXCEPT !.arg = w]
    /\ UNCHANGED <<logLevel, stdOut, formatter, fields, fieldMapping, hooks, scopes, exited>>
    /\ UNCHANGED threadVars

SetLogLevel(l) ==
    /\ ~exited
    /\ logLevel' = l
    /\ last' = [Quiet("SetLogLevel") EXCEPT !.arg = l]
    /\ UNCHANGED <<writer, stdOut, formatter, fields, fieldMapping, hooks, scopes, exited>>
    /\ UNCHANGED threadVars

SetStdOut(enable) ==
    /\ ~exited
    /\ stdOut' = enable
    /\ last' = [Quiet("SetStdOut") EXCEPT !.arg = enable]
    /\ UNCHANGED <<writer, logLevel, formatter, fields, fieldMapping, hooks, scopes, exited>>
    /\ UNCHANGED threadVars

\* the hooks installed so far, over all levels
NumHooks == Len(hooks[Dbg]) + Len(hooks[Nfo]) + Len(hooks[Wrn]) + Len(hooks[Err]) + Len(hooks[Ftl])

\* a hook is a fresh closure: it is named by the order of its installation
InstallHook(l) ==
    /\ ~exited
    /\ NumHooks < MaxHooks
    /\ hooks' = [hooks EXCEPT ![l] = Append(hooks[l], NumHooks + 1)]
    /\ last' = [Quiet("InstallHook") EXCEPT !.arg = l]
    /\ UNCHANGED <<writer, logLevel, stdOut, formatter, fields, fieldMapping, scopes, exited>>
    /\ UNCHANGED threadVars

----------------------------------------------------------------------------
(* The formatters *)

\* a getKey that renames the built-in fields only
getKeyNoMapping(compact, key, mapping, isCustomField) ==
    IF compact /\ ~isCustomField THEN <<"@">> \o SubSeq(key, 1, 1) ELSE key

\* a getKey that renames the custom fields in both modes
getKeyMapsInBothModes(compact, key, mapping, isCustomField) ==
    IF ~isCustomField
    THEN IF compact THEN <<"@">> \o SubSeq(key, 1, 1) ELSE key
    ELSE IF key \in DOMAIN mapping THEN mapping[key] ELSE key

\* JSONFormatter.getKey
getKey(compact, key, mapping, isCustomField) ==
    IF compact
    THEN IF ~isCustomField
         THEN <<"@">> \o SubSeq(key, 1, 1)
         ELSE IF key \in DOMAIN mapping THEN mapping[key] ELSE key
    ELSE key

\* out := Fields{message, timestamp, level}: a map literal, the later entry
\* of two equal keys would win (the three keys are distinct in both modes)
StandardFields(compact, l, msg, ts, mapping) ==
    CopyInto(CopyInto((getKey(compact, kMessage, mapping, FALSE) :> msg),
                      (getKey(compact, kTimestamp, mapping, FALSE) :> ts)),
             (getKey(compact, kLevel, mapping, FALSE) :> LevelString(l)))

\* a loop that asks getKey for the key of a built-in field
RECURSIVE AddCustomFieldsAsBuiltin(_, _, _, _, _, _)
AddCustomFieldsAsBuiltin(out, compact, f, mapping, o, i) ==
    IF i > Len(o)
    THEN out
    ELSE AddCustomFieldsAsBuiltin(
             CopyInto(out, (getKey(compact, o[i], mapping, FALSE) :> f.m[o[i]])),
             compact, f, mapping, o, i + 1)

\* a loop that leaves a key alone when out has it already
RECURSIVE AddCustomFieldsKeepsFirst(_, _, _, _, _, _)
AddCustomFieldsKeepsFirst(out, compact, f, mapping, o, i) ==
    IF i > Len(o)
    THEN out
    ELSE AddCustomFieldsKeepsFirst(
             CopyInto((getKey(compact, o[i], mapping, TRUE) :> f.m[o[i]]), out),
             compact, f, mapping, o, i + 1)

\* for k, v := range fields { out[getKey(k, fieldMapping, true)] = v },
\* visiting the keys in the order o, from the i-th on
RECURSIVE AddCustomFields(_, _, _, _, _, _)
AddCustomFields(out, compact, f, mapping, o, i) ==
    IF i > Len(o)
    THEN out
    ELSE AddCustomFields(
             CopyInto(out, (getKey(compact, o[i], mapping, TRUE) :> f.m[o[i]])),
             compact, f, mapping, o, i + 1)

\* the keys of a map in the order the JSON encoder writes them: sorted
RECURSIVE SortedKeys(_)
SortedKeys(K) ==
    IF K = {} THEN <<>>
    ELSE LET k == CHOOSE x \in K : \A y \in K \ {x} : StringLess(x, y)
         IN  <<k>> \o SortedKeys(K \ {k})

\* a JSON string: the bytes between quotes, a newline written as \n
RECURSIVE EscapeJSON(_)
EscapeJSON(cs) ==
    IF cs = <<>> THEN <<>>
    ELSE (IF cs[1] = "\n" THEN <<"\\", "n">> ELSE <<cs[1]>>) \o EscapeJSON(Tail(cs))

QuoteJSON(cs) == <<"\"">> \o EscapeJSON(cs) \o <<"\"">>

\* the members of the object out from the i-th key of ks on
RECURSIVE EncodeMembers(_, _, _)
EncodeMembers(out, ks, i) ==
    IF i > Len(ks) THEN <<>>
    ELSE QuoteJSON(ks[i]) \o <<":">> \o QuoteJSON(Chars(out[ks[i]])) \o
         (IF i < Len(ks) THEN <<",">> ELSE <<>>) \o EncodeMembers(out, ks, i + 1)

\* json.NewEncoder(w).Encode(out): the object on one line
Encode(out) ==
    <<"{">> \o EncodeMembers(out, SortedKeys(DOMAIN out), 1) \o <<"}", "\n">>

\* the JSON string that starts after the quote before line[i]: its bytes and
\* the index after its closing quote
RECURSIVE ReadString(_, _, _)
ReadString(line, i, acc) ==
    IF line[i] = "\""
    THEN [str |-> acc, next |-> i + 1]
    ELSE IF line[i] = "\\"
         THEN ReadString(line, i + 2, Append(acc, IF line[i + 1] = "n" THEN "\n" ELSE line[i + 1]))
         ELSE ReadString(line, i + 1, Append(acc, line[i]))

\* the members of a JSON object from line[i] on, added to obj: the later of
\* two members with one key wins
RECURSIVE ReadMembers(_, _, _)
ReadMembers(line, i, obj) ==
    LET key == ReadString(line, i + 1, <<>>)
        val == ReadString(line, key.next + 2, <<>>)
        got == CopyInto(obj, (key.str :> val.str))
    IN  IF line[val.next] = "," THEN ReadMembers(line, val.next + 1, got) ELSE got

\* json.NewDecoder(reader).Decode(&data): the object of a line, its values
\* as bytes
Decode(line) == IF line[2] = "}" THEN <<>> ELSE ReadMembers(line, 2, <<>>)

\* JSONFormatter.Format: the object the encoder is given and the line it
\* writes, for each order of the range loop
JSONFormat(compact, l, msg, ts, f, mapping) ==
    {LET out == AddCustomFields(StandardFields(compact, l, msg, ts, mapping),
                                compact, f, mapping, o, 1)
         \* encoder.Encode marshals out before it writes: when a value
         \* cannot be marshalled nothing is written and Format returns
         \* the error
         bad == \E k \in DOMAIN out : out[k] \in Unmarshalable
     IN  [kind |-> "json", obj |-> out, err |-> bad,
          line |-> IF bad THEN <<>> ELSE Encode(out)] : o \in RangeOrders(f.m)}

\* the level code of TextFormatter.Format
LevelCode(l) ==
    CASE l = Dbg -> "DBG "
      [] l = Nfo -> "NFO "
      [] l = Wrn -> "WRN "
      [] l = Err -> "ERR "
      [] l = Ftl -> "FTL "
      [] OTHER   -> ""

\* a writeFields that writes the separator after every field
RECURSIVE writeFieldsSeparatorAfterEach(_, _, _)
writeFieldsSeparatorAfterEach(f, o, idx) ==
    IF idx > Len(o) THEN <<>>
    ELSE o[idx] \o <<":", " ">> \o Chars(f.m[o[idx]]) \o <<",", " ">> \o
         writeFieldsSeparatorAfterEach(f, o, idx + 1)

\* writeFields: the bytes written for the fields from the idx-th of the
\* range order o on
RECURSIVE writeFields(_, _, _)
writeFields(f, o, idx) ==
    IF idx > Len(o) THEN <<>>
    ELSE o[idx] \o <<":", " ">> \o Chars(f.m[o[idx]]) \o
         (IF idx < Len(o) THEN <<",", " ">> ELSE <<>>) \o
         writeFields(f, o, idx + 1)

\* the bytes TextFormatter.Format writes when the range loop of writeFields
\* visits the fields in the order o
TextLine(l, msg, ts, f, o) ==
    Chars(ts) \o <<" ">> \o Chars(LevelCode(l)) \o Chars(msg) \o
    (IF Cardinality(DOMAIN f.m) > 0
     THEN <<" ", "[">> \o writeFields(f, o, 1) \o <<"]">>
     ELSE <<>>) \o
    (IF Len(Chars(msg)) = 0 \/ Chars(msg)[Len(Chars(msg))] # "\n" THEN <<"\n">> ELSE <<>>)

\* TextFormatter.Format: timestamp, level code, message and the fields in the
\* order the range loop of writeFields visits them
TextFormat(l, msg, ts, f) ==
    {[kind |-> "text", ts |-> ts, code |-> LevelCode(l), msg |-> msg,
      flds |-> [i \in 1..Len(o) |-> <<o[i], f.m[o[i]]>>], err |-> FALSE,
      line |-> TextLine(l, msg, ts, f, o)] : o \in RangeOrders(f.m)}

\* l.formatter.Format(entryBuffer, logLevel, msg, now, fields, fieldMapping)
Format(fmt, l, msg, ts, f, mapping) ==
    CASE fmt = TextFormatter -> TextFormat(l, msg, ts, f)
      [] fmt = JSONFormatter -> JSONFormat(FALSE, l, msg, ts, f, mapping)
      [] fmt = JSONCompact   -> JSONFormat(TRUE, l, msg, ts, f, mapping)

----------------------------------------------------------------------------
(* The write pipeline *)

\* the writer receives the entry when one is set
WritesToWriter == writer # Nil

\* a routing that sends Warning to standard error too
StdStreamFromWarning(l) ==
    IF stdOut
    THEN IF l >= Wrn THEN "stderr" ELSE "stdout"
    ELSE "none"

\* the standard stream the entry goes to
StdStream(l) ==
    IF stdOut
    THEN IF l > Wrn THEN "stderr" ELSE "stdout"
    ELSE "none"

\* a pipeline that calls the hooks of every level up to the entry's
HookCallsAtLeast(l, msg, ts) ==
    LET upTo[n \in LogLevel] == IF n = Dbg THEN hooks[Dbg] ELSE upTo[n - 1] \o hooks[n]
    IN  [i \in 1..Len(upTo[l]) |-> [hook |-> upTo[l][i], ts |-> ts, level |-> l, msg |-> msg]]

\* a pipeline whose hooks get a time read after the write
HookCallsLaterTime(l, msg, ts) ==
    [i \in 1..Len(hooks[l]) |->
        [hook |-> hooks[l][i], ts |-> CHOOSE t \in Times : t # ts, level |-> l, msg |-> msg]]

\* for _, h := range l.hooks[logLevel] { h(now, logLevel, msg) }
HookCalls(l, msg, ts) ==
    [i \in 1..Len(hooks[l]) |-> [hook |-> hooks[l][i], ts |-> ts, level |-> l, msg |-> msg]]

\* a pipeline that returns when Format fails
ReturnsOnFormatError(err) == ~err

\* if err := l.formatter.Format(...); err != nil { fmt.Fprintf(os.Stderr, ...) }:
\* the error is reported and writeWithFields goes on
ProceedsAfterFormat(err) == TRUE

\* the outcomes of l.writer.Write: TRUE when it returns an error
WriteErrors(w) == IF w = FileWriter THEN BOOLEAN ELSE {FALSE}

\* a pipeline that calls Write again when it failed
WriteCallsRetry(err) == IF writer # Nil THEN (IF err THEN 2 ELSE 1) ELSE 0

\* if l.writer != nil { if _, err := l.writer.Write(...); err != nil {
\* fmt.Fprintf(os.Stderr, ...) } }: the calls of Write
WriteCalls(err) == IF writer # Nil THEN 1 ELSE 0

\* logger.writeWithFields, called by the method op of the logger (src = 0)
\* or of the scope src; exit is TRUE when the method calls os.Exit(1) next
writeWithFields(op, src, l, msg, f, mapping, exit) ==
    /\ \E now \in Times, werr \in WriteErrors(writer) :
         \E e \in Format(formatter, l, msg, now, f, mapping) :
             LET goesOn == ProceedsAfterFormat(e.err)
             IN  last' = [op |-> op, src |-> src, level |-> l, msg |-> msg, now |-> now,
                          min |-> logLevel, arg |-> f, pre |-> mapping, formatted |-> TRUE,
                          entry |-> e, fmtErr |-> e.err,
                          wrote |-> goesOn /\ WritesToWriter,
                          bytes |-> IF goesOn /\ WritesToWriter THEN e.line ELSE <<>>,
                          writeCalls |-> IF goesOn THEN WriteCalls(werr) ELSE 0,
                          writeErr |-> goesOn /\ werr,
                          stream |-> IF goesOn THEN StdStream(l) ELSE "none",
                          hookCalls |-> IF goesOn THEN HookCalls(l, msg, now) ELSE <<>>,
                          \* "error formatting the log entry", "could not
                          \* write log entry to io.Writer" on stderr
                          diag |-> e.err \/ (goesOn /\ werr)]
    /\ exited' = exit
    /\ UNCHANGED <<writer, logLevel, stdOut, formatter, fields, fieldMapping, hooks, scopes>>
    /\ UNCHANGED threadVars

\* the early return of Debug and Debugf
EarlyReturn(op, src, l, msg) ==
    /\ last' = [Quiet(op) EXCEPT !.src = src, !.level = l, !.msg = msg, !.min = logLevel]
    /\ UNCHANGED <<writer, logLevel, stdOut, formatter, fields, fieldMapping, hooks,
                   scopes, exited>>
    /\ UNCHANGED threadVars

\* logger.GetFields, logger.GetFieldMapping
GetFields == fields
GetFieldMapping == fieldMapping

\* logger.write
write(op, l, msg) == writeWithFields(op, 0, l, msg, GetFields, GetFieldMapping, FALSE)

----------------------------------------------------------------------------
(* The emission methods of the core logger *)

Debugf(msg) ==
    /\ ~exited
    /\ IF Dbg < logLevel THEN EarlyReturn("Debugf", 0, Dbg, msg) ELSE write("Debugf", Dbg, msg)

Debug(msg) ==
    /\ ~exited
    /\ IF Dbg < logLevel THEN EarlyReturn("Debug", 0, Dbg, msg) ELSE write("Debug", Dbg, msg)

Infof(msg) == ~exited /\ write("Infof", Nfo, msg)

Info(msg) == ~exited /\ write("Info", Nfo, msg)

Warningf(msg) == ~exited /\ write("Warningf", Wrn, msg)

Warning(msg) == ~exited /\ write("Warning", Wrn, msg)

Errorf(msg) == ~exited /\ write("Errorf", Err, msg)

Error(msg) == ~exited /\ write("Error", Err, msg)

Fatalf(msg) ==
    /\ ~exited
    /\ writeWithFields("Fatalf", 0, Ftl, msg, GetFields, GetFieldMapping, TRUE)

\* a Fatal that returns to its caller
FatalReturns(msg) == ~exited /\ write("Fatal", Ftl, msg)

Fatal(msg) ==
    /\ ~exited
    /\ writeWithFields("Fatal", 0, Ftl, msg, GetFields, GetFieldMapping, TRUE)

----------------------------------------------------------------------------
(* Configure *)

\* the Config values callers pass: Path is "" or the path of a log file
ConfigPaths == {"", "app.log"}
Configs ==
    [LogLevel : {Err}, StdOut : BOOLEAN, Formatter : {Nil, JSONFormatter},
     Path : ConfigPaths, TruncateOnStart : BOOLEAN, Writer : Writers]

\* a Configure that leaves the writer alone when cfg.Writer is nil
ConfigureWriterKeepsSink(cfg) ==
    IF cfg.Path # "" THEN FileWriter ELSE IF cfg.Writer # Nil THEN cfg.Writer ELSE writer

\* the writer Configure installs: the file it opened at cfg.Path, or
\* cfg.Writer when the path is empty
ConfigureWriter(cfg) == IF cfg.Path # "" THEN FileWriter ELSE cfg.Writer

\* the message of the error of os.OpenFile
OpenError == "open error"

\* logger.Configure: SetLogLevel, SetStdOut, SetFormatter when one is given,
\* then SetWriter of the opened file or of cfg.Writer; when os.OpenFile
\* fails (opened = FALSE) l.Fatal(err) writes an entry by the level, flag
\* and formatter just set, and exits
Configure(cfg) ==
    LET fmt == IF cfg.Formatter # Nil THEN cfg.Formatter ELSE formatter
    IN  /\ ~exited
        /\ logLevel' = cfg.LogLevel
        /\ stdOut' = cfg.StdOut
        /\ formatter' = fmt
        /\ \E opened \in (IF cfg.Path # "" THEN BOOLEAN ELSE {TRUE}) :
             IF opened
             THEN /\ writer' = ConfigureWriter(cfg)
                  /\ last' = [Quiet("Configure") EXCEPT !.arg = cfg, !.pre = formatter]
                  /\ exited' = FALSE
             ELSE /\ writer' = writer
                  /\ \E now \in Times, werr \in WriteErrors(writer) :
                       \E e \in Format(fmt, Ftl, OpenError, now, fields, fieldMapping) :
                         last' = [Quiet("Fatal") EXCEPT
                                    !.level = Ftl, !.msg = OpenError, !.now = now,
                                    !.min = cfg.LogLevel, !.arg = fields,
                                    !.pre = fieldMapping, !.formatted = TRUE,
                                    !.entry = e, !.fmtErr = e.err,
                                    !.wrote = WritesToWriter,
                                    !.bytes = IF WritesToWriter THEN e.line ELSE <<>>,
                                    !.writeCalls = WriteCalls(werr), !.writeErr = werr,
                                    !.stream = IF cfg.StdOut THEN "stderr" ELSE "none",
                                    !.hookCalls = HookCalls(Ftl, OpenError, now),
                                    !.diag = e.err \/ werr]
                  /\ exited' = TRUE
        /\ UNCHANGED <<fields, fieldMapping, hooks, scopes>>
        /\ UNCHANGED threadVars

----------------------------------------------------------------------------
(* The scoped logger *)

\* a scope that reads the field set of its logger at each call
scopedGetFieldsLive(s) == fields

\* a scope that keeps the mapping its logger had when it was derived
scopedGetFieldMappingThen(s) == scopes[s].mappingThen

\* a scope with a minimum level of its own, Info
scopedGetLogLevelOwn(s) == Nfo

\* scopedLogger.GetLogLevel, GetFields and GetFieldMapping of the scope s
scopedGetLogLevel(s) == logLevel
scopedGetFields(s) == scopes[s].fields
scopedGetFieldMapping(s) == fieldMapping

scopedWrite(op, s, l, msg, exit) ==
    writeWithFields(op, s, l, msg, scopedGetFields(s), scopedGetFieldMapping(s), exit)

scopedDebugf(s, msg) ==
    /\ ~exited
    /\ IF Dbg < scopedGetLogLevel(s)
       THEN EarlyReturn("Debugf", s, Dbg, msg)
       ELSE scopedWrite("Debugf", s, Dbg, msg, FALSE)

scopedDebug(s, msg) ==
    /\ ~exited
    /\ IF Dbg < scopedGetLogLevel(s)
       THEN EarlyReturn("Debug", s, Dbg, msg)
       ELSE scopedWrite("Debug", s, Dbg, msg, FALSE)

scopedInfof(s, msg) == ~exited /\ scopedWrite("Infof", s, Nfo, msg, FALSE)

scopedInfo(s, msg) == ~exited /\ scopedWrite("Info", s, Nfo, msg, FALSE)

scopedWarningf(s, msg) == ~exited /\ scopedWrite("Warningf", s, Wrn, msg, FALSE)

scopedWarning(s, msg) == ~exited /\ scopedWrite("Warning", s, Wrn, msg, FALSE)

scopedErrorf(s, msg) == ~exited /\ scopedWrite("Errorf", s, Err, msg, FALSE)

scopedError(s, msg) == ~exited /\ scopedWrite("Error", s, Err, msg, FALSE)

scopedFatalf(s, msg) == ~exited /\ scopedWrite("Fatalf", s, Ftl, msg, TRUE)

scopedFatal(s, msg) == ~exited /\ scopedWrite("Fatal", s, Ftl, msg, TRUE)

\* scopedLogger.WithScope
\* a WithScope that chains: the new scope is bound to the scope it is derived
\* from and holds the new fields only
scopedWithScopeChained(s, f) ==
    /\ ~exited
    /\ Len(scopes) < MaxScopes
    /\ scopes' = Append(scopes, [logger |-> s, fields |-> MkFields(f.m),
                                 mappingThen |-> fieldMapping])
    /\ last' = [Quiet("scopedWithScope") EXCEPT !.arg = f, !.src = Len(scopes) + 1, !.pre = s]
    /\ UNCHANGED <<writer, logLevel, stdOut, formatter, fields, fieldMapping, hooks, exited>>
    /\ UNCHANGED threadVars

\* scopedLogger.WithScope: &scopedLogger{s.logger, scopeFields}; the logger
\* of a scope is the core logger, written 0
scopedWithScope(s, f) ==
    /\ ~exited
    /\ Len(scopes) < MaxScopes
    /\ scopes' = Append(scopes, [logger |-> scopes[s].logger,
                                 fields |-> WithScopeFields(scopes[s].fields, f),
                                 mappingThen |-> fieldMapping])
    /\ last' = [Quiet("scopedWithScope") EXCEPT !.arg = f, !.src = Len(scopes) + 1, !.pre = s]
    /\ UNCHANGED <<writer, logLevel, stdOut, formatter, fields, fieldMapping, hooks, exited>>
    /\ UNCHANGED threadVars

----------------------------------------------------------------------------
(* The map a caller keeps *)

\* the keys and the values of the statements F[k] = v of a caller
CallerKeys == {kExtra}
CallerVals == {"b"}

\* F := Fields{...}: the caller makes a map of its own
CallerMakes(m) ==
    /\ ~exited
    /\ held' = MkFields(m)
    /\ sameMap' = FALSE
    /\ last' = [Quiet("CallerMakes") EXCEPT !.arg = MkFields(m)]
    /\ UNCHANGED <<writer, logLevel, stdOut, formatter, fields, fieldMapping, hooks, scopes,
                   exited>>
    /\ UNCHANGED <<calls, pc, frame, mutex, buffers, pool, sink, access, clock>>

\* fields := f; if fields == nil { fields = Fields{} }; l.fields = fields:
\* the logger has the map f itself unless f is nil
KeepsMap(f) == ~f.nil

\* l.SetFields(F) with the map the caller keeps
SetFieldsHeld ==
    /\ ~exited
    /\ fields' = SetFieldsResult(held)
    /\ sameMap' = KeepsMap(held)
    /\ last' = [Quiet("SetFields") EXCEPT !.arg = held]
    /\ UNCHANGED <<writer, logLevel, stdOut, formatter, fieldMapping, hooks, scopes, exited>>
    /\ UNCHANGED <<calls, pc, frame, mutex, buffers, pool, sink, access, clock, held>>

\* F[k] = v by the caller (a write to a nil map panics): the map changes for
\* everyone that has it
CallerWrites(k, v) ==
    /\ ~exited
    /\ ~held.nil
    /\ held' = MkFields(CopyInto(held.m, (k :> v)))
    /\ fields' = IF sameMap THEN MkFields(CopyInto(held.m, (k :> v))) ELSE fields
    /\ last' = [Quiet("CallerWrites") EXCEPT !.arg = held, !.pre = fields]
    /\ UNCHANGED <<writer, logLevel, stdOut, formatter, fieldMapping, hooks, scopes, exited>>
    /\ UNCHANGED <<calls, pc, frame, mutex, buffers, pool, sink, access, clock, sameMap>>

----------------------------------------------------------------------------
(* The calls of concurrent threads, one step at a time *)

\* the fields of the logger and the observation of the sequential calls
loggerVars == <<writer, logLevel, stdOut, formatter, fields, fieldMapping, hooks, scopes,
                exited, last>>

\* the fields fs of the logger are read or written by a step of thread t
Accesses(t, fs) == {[field |-> f, locked |-> mutex = t] : f \in fs}

\* the values time.Now() returns to the threads
ThreadTimes == {"t1"}

\* a thread holds its entry buffer and, inside getTimestamp, one more
MaxBuffers == 2 * NumThreads

\* bufferPool.Get(): a buffer of the pool, or a new one
PoolGets == pool \cup (IF Len(buffers) < MaxBuffers THEN {Len(buffers) + 1} ELSE {})
AfterGet(b) == IF b \in pool THEN buffers ELSE Append(buffers, <<>>)

\* a Reset that leaves the buffer as it is
ResetKeeps(content) == content

\* bytes.Buffer.Reset
Reset(content) == <<>>

\* thread t enters the method op
StartCall(t, op, src, level, arg, f, next) ==
    /\ ~exited
    /\ pc[t] = "idle"
    /\ calls < MaxCalls
    /\ calls' = calls + 1
    /\ frame' = [frame EXCEPT ![t] = [NoFrame EXCEPT !.op = op, !.src = src, !.level = level,
                                                     !.msg = CallerMsg(t), !.arg = arg,
                                                     !.fields = f]]
    /\ pc' = [pc EXCEPT ![t] = next]

\* logger.Info: l.write(Nfo, fmt.Sprint(v...))
tInfo(t) ==
    /\ StartCall(t, "Info", 0, Nfo, Nil, NilFields, "readFields")
    /\ access' = {}
    /\ UNCHANGED <<loggerVars, worldVars, mutex, buffers, pool, sink>>

\* a Debug that does not look at the level
tDebugNoCheck(t) ==
    /\ StartCall(t, "Debug", 0, Dbg, Nil, NilFields, "readFields")
    /\ access' = Accesses(t, {"logLevel"})
    /\ UNCHANGED <<loggerVars, worldVars, mutex, buffers, pool, sink>>

\* logger.Debug: the level is read first, and the call returns when it is
\* above Debug
tDebug(t) ==
    /\ IF Dbg < logLevel
       THEN /\ ~exited
            /\ pc[t] = "idle"
            /\ calls < MaxCalls
            /\ calls' = calls + 1
            /\ UNCHANGED <<pc, frame>>
       ELSE StartCall(t, "Debug", 0, Dbg, Nil, NilFields, "readFields")
    /\ access' = Accesses(t, {"logLevel"})
    /\ UNCHANGED <<loggerVars, worldVars, mutex, buffers, pool, sink>>

\* scopedLogger.Info of the scope s: s.fields is the first argument of
\* writeWithFields
tScopedInfo(t, s) ==
    /\ StartCall(t, "Info", s, Nfo, Nil, scopedGetFields(s), "readMapping")
    /\ access' = {}
    /\ UNCHANGED <<loggerVars, worldVars, mutex, buffers, pool, sink>>

\* scopedLogger.Debug of the scope s: s.GetLogLevel() is read first, and the
\* call returns when it is above Debug
tScopedDebug(t, s) ==
    /\ IF Dbg < scopedGetLogLevel(s)
       THEN /\ ~exited
            /\ pc[t] = "idle"
            /\ calls < MaxCalls
            /\ calls' = calls + 1
            /\ UNCHANGED <<pc, frame>>
       ELSE StartCall(t, "Debug", s, Dbg, Nil, scopedGetFields(s), "readMapping")
    /\ access' = Accesses(t, {"logLevel"})
    /\ UNCHANGED <<loggerVars, worldVars, mutex, buffers, pool, sink>>

\* logger.write: l.GetFields()
tGetFields(t) ==
    /\ pc[t] = "readFields"
    /\ frame' = [frame EXCEPT ![t].fields = GetFields]
    /\ access' = Accesses(t, {"fields"})
    /\ pc' = [pc EXCEPT ![t] = "readMapping"]
    /\ UNCHANGED <<loggerVars, worldVars, calls, mutex, buffers, pool, sink>>

\* logger.write: l.GetFieldMapping(); scopedLogger: s.GetFieldMapping()
tGetFieldMapping(t) ==
    /\ pc[t] = "readMapping"
    /\ frame' = [frame EXCEPT ![t].mapping =
                     IF frame[t].src = 0 THEN GetFieldMapping
                     ELSE scopedGetFieldMapping(frame[t].src)]
    /\ access' = Accesses(t, {"fieldMapping"})
    /\ pc' = [pc EXCEPT ![t] = "get"]
    /\ UNCHANGED <<loggerVars, worldVars, calls, mutex, buffers, pool, sink>>

\* writeWithFields: now := time.Now(); entryBuffer := bufferPool.Get();
\* entryBuffer.Reset()
tGetBuffer(t) ==
    /\ pc[t] = "get"
    /\ \E now \in ThreadTimes, b \in PoolGets :
         /\ frame' = [frame EXCEPT ![t].now = now, ![t].buf = b]
         /\ buffers' = [AfterGet(b) EXCEPT ![b] = Reset(@)]
         /\ pool' = pool \ {b}
    /\ access' = {}
    /\ pc' = [pc EXCEPT ![t] = "lock"]
    /\ UNCHANGED <<loggerVars, worldVars, calls, mutex, sink>>

\* the place of a time among the values of time.Now(); 0 for no time
TimeRank(ts) == IF ts = "t1" THEN 1 ELSE IF ts = "t2" THEN 2 ELSE 0

\* writeWithFields: now := time.Now(), a time that is not before the times
\* read so far; entryBuffer := bufferPool.Get(); entryBuffer.Reset()
tGetBufferNow(t) ==
    /\ pc[t] = "get"
    /\ \E now \in Times, b \in PoolGets :
         /\ TimeRank(now) >= clock
         /\ clock' = TimeRank(now)
         /\ frame' = [frame EXCEPT ![t].now = now, ![t].buf = b]
         /\ buffers' = [AfterGet(b) EXCEPT ![b] = Reset(@)]
         /\ pool' = pool \ {b}
    /\ access' = {}
    /\ pc' = [pc EXCEPT ![t] = "lock"]
    /\ UNCHANGED <<loggerVars, held, sameMap, calls, mutex, sink>>

\* a lock that does not wait for the mutex
tLockNoWait(t) ==
    /\ pc[t] = "lock"
    /\ mutex' = t
    /\ access' = {}
    /\ pc' = [pc EXCEPT ![t] = "timestamp"]
    /\ UNCHANGED <<loggerVars, worldVars, calls, frame, buffers, pool, sink>>

\* writeWithFields: l.lock()
tLock(t) ==
    /\ pc[t] = "lock"
    /\ mutex = 0
    /\ mutex' = t
    /\ access' = {}
    /\ pc' = [pc EXCEPT ![t] = "timestamp"]
    /\ UNCHANGED <<loggerVars, worldVars, calls, frame, buffers, pool, sink>>

\* writeWithFields: l.formatter is read and Format is called; Format calls
\* getTimestamp, which gets a buffer of the pool, resets it, writes the
\* timestamp into it and copies the string out
tGetTimestamp(t) ==
    /\ pc[t] = "timestamp"
    /\ \E w \in PoolGets :
         /\ frame' = [frame EXCEPT ![t].fmt = formatter, ![t].tsbuf = w]
         /\ buffers' = [AfterGet(w) EXCEPT ![w] = Reset(@) \o Chars(frame[t].now)]
         /\ pool' = pool \ {w}
    /\ access' = Accesses(t, {"formatter"})
    /\ pc' = [pc EXCEPT ![t] = "format"]
    /\ UNCHANGED <<loggerVars, worldVars, calls, mutex, sink>>

\* getTimestamp returns (its deferred bufferPool.Put(w) runs) and Format
\* writes the entry into the entry buffer
tFormat(t) ==
    /\ pc[t] = "format"
    /\ \E e \in Format(frame[t].fmt, frame[t].level, frame[t].msg, frame[t].now,
                        frame[t].fields, frame[t].mapping) :
         buffers' = [buffers EXCEPT ![frame[t].buf] = @ \o e.line]
    /\ pool' = pool \cup {frame[t].tsbuf}
    /\ frame' = [frame EXCEPT ![t].tsbuf = 0]
    /\ access' = {}
    /\ pc' = [pc EXCEPT ![t] = "write"]
    /\ UNCHANGED <<loggerVars, worldVars, calls, mutex, sink>>

\* writeWithFields: l.writer.Write(entryBuffer.Bytes()) when a writer is
\* set, entryBuffer.WriteTo(output), which empties the buffer, when
\* l.stdOut is set, and the start of the loop over the hooks of the level:
\* the range expression l.hooks[logLevel] is evaluated once
tWrite(t) ==
    /\ pc[t] = "write"
    /\ sink' = IF writer # Nil
               THEN [thread |-> t, bytes |-> buffers[frame[t].buf], fmt |-> frame[t].fmt,
                     level |-> frame[t].level, msg |-> frame[t].msg, now |-> frame[t].now,
                     fields |-> frame[t].fields, mapping |-> frame[t].mapping]
               ELSE sink
    /\ buffers' = IF stdOut THEN [buffers EXCEPT ![frame[t].buf] = <<>>] ELSE buffers
    /\ access' = Accesses(t, {"writer", "stdOut", "hooks"})
    /\ frame' = [frame EXCEPT ![t].hooks = hooks[frame[t].level]]
    /\ pc' = [pc EXCEPT ![t] = IF Len(hooks[frame[t].level]) > 0 THEN "hooks" ELSE "unlock"]
    /\ UNCHANGED <<loggerVars, worldVars, calls, mutex, pool>>

\* the frame and the place of thread t when the call it is in returns: those
\* of no call, or, when a hook made the call, those of the emission whose
\* hook it was, the hook having returned too
ReturnFrame(t) ==
    IF frame[t].outer = <<>> THEN NoFrame
    ELSE [frame[t].outer[1] EXCEPT !.hook = @ + 1]
ReturnPc(t) ==
    IF frame[t].outer = <<>> THEN "idle"
    ELSE IF frame[t].outer[1].hook + 1 = Len(frame[t].outer[1].hooks) THEN "unlock"
    ELSE "hooks"

\* the methods of the logger a hook calls: an emission method, InstallHook
\* and a setter, with their arguments
HookMethods == {<<"Info", Nil>>, <<"InstallHook", Nfo>>, <<"SetStdOut", TRUE>>}

\* writeWithFields: h(now, logLevel, msg), where the hook h calls the method
\* c[1] of the logger it is installed on
tHookCalls(t, c) ==
    /\ pc[t] = "hooks"
    /\ frame[t].outer = <<>>
    /\ frame' = [frame EXCEPT ![t] =
                    [NoFrame EXCEPT !.op = c[1], !.level = IF c[1] = "Info" THEN Nfo ELSE -1,
                                    !.msg = CallerMsg(t), !.arg = c[2],
                                    !.outer = <<frame[t]>>]]
    /\ pc' = [pc EXCEPT ![t] = IF c[1] = "Info" THEN "readFields" ELSE "mutatorLock"]
    /\ access' = {}
    /\ UNCHANGED <<loggerVars, worldVars, calls, mutex, buffers, pool, sink>>

\* writeWithFields: h(now, logLevel, msg), one hook of the loop called and
\* returned
tHook(t) ==
    /\ pc[t] = "hooks"
    /\ frame' = [frame EXCEPT ![t].hook = @ + 1]
    /\ access' = {}
    /\ pc' = [pc EXCEPT ![t] = IF frame[t].hook + 1 = Len(frame[t].hooks)
                                THEN "unlock" ELSE "hooks"]
    /\ UNCHANGED <<loggerVars, worldVars, calls, mutex, buffers, pool, sink>>

\* an unlock that also runs before the hooks are called
tUnlockBeforeHooks(t) ==
    /\ pc[t] \in {"hooks", "unlock"}
    /\ pc[t] = "hooks" => mutex = t
    /\ mutex' = 0
    /\ access' = {}
    /\ pc' = [pc EXCEPT ![t] = IF pc[t] = "hooks" THEN "hooks" ELSE "put"]
    /\ UNCHANGED <<loggerVars, worldVars, calls, frame, buffers, pool, sink>>

\* writeWithFields returns: the deferred l.unlock()
tUnlock(t) ==
    /\ pc[t] = "unlock"
    /\ mutex' = 0
    /\ access' = {}
    /\ pc' = [pc EXCEPT ![t] = "put"]
    /\ UNCHANGED <<loggerVars, worldVars, calls, frame, buffers, pool, sink>>

\* writeWithFields returns: the deferred bufferPool.Put(entryBuffer)
tPut(t) ==
    /\ pc[t] = "put"
    /\ pool' = pool \cup {frame[t].buf}
    /\ frame' = [frame EXCEPT ![t] = ReturnFrame(t)]
    /\ access' = {}
    /\ pc' = [pc EXCEPT ![t] = ReturnPc(t)]
    /\ UNCHANGED <<loggerVars, worldVars, calls, mutex, buffers, sink>>

\* thread t enters the mutator op (or WithScope) with the argument arg
tMutator(t, op, arg) ==
    /\ op = "WithScope" => Len(scopes) < MaxScopes
    /\ op = "InstallHook" => NumHooks < MaxHooks
    /\ StartCall(t, op, 0, -1, arg, NilFields, "mutatorLock")
    /\ access' = {}
    /\ UNCHANGED <<loggerVars, worldVars, mutex, buffers, pool, sink>>

\* the l.lock() of a mutator and of WithScope
tMutatorLock(t) ==
    /\ pc[t] = "mutatorLock"
    /\ mutex = 0
    /\ mutex' = t
    /\ access' = {}
    /\ pc' = [pc EXCEPT ![t] = "mutate"]
    /\ UNCHANGED <<loggerVars, worldVars, calls, frame, buffers, pool, sink>>

\* the field of the logger a mutator assigns (WithScope reads the fields),
\* and its deferred l.unlock()
tMutate(t) ==
    LET op  == frame[t].op
        arg == frame[t].arg
    IN  /\ pc[t] = "mutate"
        /\ fields' = IF op = "SetFields" THEN SetFieldsResult(arg) ELSE fields
        /\ scopes' = IF op = "WithScope"
                     THEN Append(scopes, [logger |-> 0,
                                          fields |-> WithScopeFields(fields, arg),
                                          mappingThen |-> fieldMapping])
                     ELSE scopes
        /\ fieldMapping' = IF op = "SetFieldMapping"
                           THEN SetFieldMappingResult(fieldMapping, arg)
                           ELSE fieldMapping
        /\ formatter' = IF op = "SetFormatter" THEN arg ELSE formatter
        /\ writer' = IF op = "SetWriter" THEN arg ELSE writer
        /\ logLevel' = IF op = "SetLogLevel" THEN arg ELSE logLevel
        /\ stdOut' = IF op = "SetStdOut" THEN arg ELSE stdOut
        /\ hooks' = IF op = "InstallHook"
                    THEN [hooks EXCEPT ![arg] = Append(hooks[arg], NumHooks + 1)]
                    ELSE hooks
        /\ access' = Accesses(t, CASE op = "SetFields" -> {"fields"}
                                   [] op = "WithScope" -> {"fields"}
                                   [] op = "SetFieldMapping" -> {"fieldMapping"}
                                   [] op = "SetFormatter" -> {"formatter"}
                                   [] op = "SetWriter" -> {"writer"}
                                   [] op = "SetLogLevel" -> {"logLevel"}
                                   [] op = "SetStdOut" -> {"stdOut"}
                                   [] op = "InstallHook" -> {"hooks"})
        /\ mutex' = 0
        /\ frame' = [frame EXCEPT ![t] = ReturnFrame(t)]
        /\ pc' = [pc EXCEPT ![t] = ReturnPc(t)]
        /\ UNCHANGED <<exited, last, calls, buffers, pool, sink, worldVars>>

\* a Configure that sets the writer first
ConfigureSetterWriterFirst(stage) ==
    CASE stage = 0 -> "SetWriter"
      [] stage = 1 -> "SetLogLevel"
      [] stage = 2 -> "SetStdOut"
      [] stage = 3 -> "SetFormatter"

\* the setters logger.Configure calls, in order
ConfigureSetter(stage) ==
    CASE stage = 0 -> "SetLogLevel"
      [] stage = 1 -> "SetStdOut"
      [] stage = 2 -> "SetFormatter"
      [] stage = 3 -> "SetWriter"

\* if cfg.Formatter != nil { l.SetFormatter(cfg.Formatter) }: the stages of
\* Configure(cfg) whose setter is called
ConfigureCalls(cfg, stage) ==
    stage \in 0..3 /\ (ConfigureSetter(stage) = "SetFormatter" => cfg.Formatter # Nil)

\* the first stage from n on whose setter is called, 4 when there is none
RECURSIVE ConfigureStage(_, _)
ConfigureStage(cfg, n) ==
    IF n > 3 \/ ConfigureCalls(cfg, n) THEN n ELSE ConfigureStage(cfg, n + 1)

\* thread t enters logger.Configure(cfg), cfg.Path being empty
tConfigure(t, cfg) ==
    /\ cfg.Path = ""
    /\ StartCall(t, "Configure", 0, -1, cfg, NilFields, "cfgLock")
    /\ access' = {}
    /\ UNCHANGED <<loggerVars, worldVars, mutex, buffers, pool, sink>>

\* the l.lock() of the setter Configure is calling
tConfigureLock(t) ==
    /\ pc[t] = "cfgLock"
    /\ mutex = 0
    /\ mutex' = t
    /\ access' = {}
    /\ pc' = [pc EXCEPT ![t] = "cfgSet"]
    /\ UNCHANGED <<loggerVars, worldVars, calls, frame, buffers, pool, sink>>

\* the assignment of the setter Configure is calling and its deferred
\* l.unlock(); Configure goes on to its next setter or returns
tConfigureSet(t) ==
    LET cfg    == frame[t].arg
        setter == ConfigureSetter(frame[t].stage)
        next   == ConfigureStage(cfg, frame[t].stage + 1)
    IN  /\ pc[t] = "cfgSet"
        /\ logLevel' = IF setter = "SetLogLevel" THEN cfg.LogLevel ELSE logLevel
        /\ stdOut' = IF setter = "SetStdOut" THEN cfg.StdOut ELSE stdOut
        /\ formatter' = IF setter = "SetFormatter" THEN cfg.Formatter ELSE formatter
        /\ writer' = IF setter = "SetWriter" THEN ConfigureWriter(cfg) ELSE writer
        /\ access' = Accesses(t, CASE setter = "SetLogLevel" -> {"logLevel"}
                                   [] setter = "SetStdOut" -> {"stdOut"}
                                   [] setter = "SetFormatter" -> {"formatter"}
                                   [] setter = "SetWriter" -> {"writer"})
        /\ mutex' = 0
        /\ frame' = [frame EXCEPT ![t] = IF next > 3 THEN NoFrame
                                         ELSE [frame[t] EXCEPT !.stage = next]]
        /\ pc' = [pc EXCEPT ![t] = IF next > 3 THEN "idle" ELSE "cfgLock"]
        /\ UNCHANGED <<fields, fieldMapping, hooks, scopes, exited, last, calls, buffers,
                       pool, sink, worldVars>>

\* a step of a call a thread is in
tStep(t) ==
    \/ tGetFields(t)
    \/ tGetFieldMapping(t)
    \/ tGetBuffer(t)
    \/ tLock(t)
    \/ tGetTimestamp(t)
    \/ tFormat(t)
    \/ tWrite(t)
    \/ tUnlock(t)
    \/ tPut(t)
    \/ tMutatorLock(t)
    \/ tMutate(t)

----------------------------------------------------------------------------
(* Specifications *)

\* the emission methods of the core logger
Emit ==
    \E msg \in Msgs :
        \/ Debugf(msg)
        \/ Debug(msg)
        \/ Infof(msg)
        \/ Info(msg)
        \/ Warningf(msg)
        \/ Warning(msg)
        \/ Errorf(msg)
        \/ Error(msg)
        \/ Fatalf(msg)
        \/ Fatal(msg)

\* the emission methods of the scoped loggers
ScopedEmit ==
    \E s \in 1..Len(scopes), msg \in Msgs :
        \/ scopedDebugf(s, msg)
        \/ scopedDebug(s, msg)
        \/ scopedInfof(s, msg)
        \/ scopedInfo(s, msg)
        \/ scopedWarningf(s, msg)
        \/ scopedWarning(s, msg)
        \/ scopedErrorf(s, msg)
        \/ scopedError(s, msg)
        \/ scopedFatalf(s, msg)
        \/ scopedFatal(s, msg)

\* New(writer, logLevel, stdOut)
Init == \E w \in Writers, l \in LogLevel, s \in BOOLEAN : newLogger(w, l, s)

\* every operation
Next ==
    \/ \E l \in LogLevel : SetLogLevel(l)
    \/ \E b \in BOOLEAN : SetStdOut(b)
    \/ \E w \in Writers : SetWriter(w)
    \/ \E fmt \in Formatters : SetFormatter(fmt)
    \/ \E f \in FieldsArgs : SetFields(f)
    \/ \E fm \in MappingArgs : SetFieldMapping(fm)
    \/ \E l \in LogLevel : InstallHook(l)
    \/ \E f \in FieldsArgs : WithScope(f)
    \/ \E s \in 1..Len(scopes), f \in FieldsArgs : scopedWithScope(s, f)
    \/ Emit
    \/ ScopedEmit

Spec == Init /\ [][Next]_vars

\* the levels the callers of SpecPipeline install hooks for
HookLevels == {Dbg, Nfo, Err}

\* the level, the sinks, the hooks and the write pipeline of a logger made
\* by New: the formatter, the field set and the mapping stay as New made them
NextPipeline ==
    \/ \E l \in LogLevel : SetLogLevel(l)
    \/ \E b \in BOOLEAN : SetStdOut(b)
    \/ \E w \in Writers : SetWriter(w)
    \/ \E l \in HookLevels : InstallHook(l)
    \/ Emit

SpecPipeline == Init /\ [][NextPipeline]_vars

\* the logger of TestFieldMapping: it writes to a buffer only
InitBuffer == newLogger("buf", Nfo, FALSE)

\* the field set and the field mapping of a logger, and the entries the
\* formatters make of them
NextMapping ==
    \/ \E fmt \in Formatters : SetFormatter(fmt)
    \/ \E f \in FieldsArgs : SetFields(f)
    \/ \E fm \in MappingArgs : SetFieldMapping(fm)
    \/ \E msg \in Msgs : Info(msg)

SpecMapping == InitBuffer /\ [][NextMapping]_vars

\* the mappings the callers of SpecScope add, the fields they set on the
\* logger and the fields they derive scopes with
ScopeMappingArgs == {(kName :> <<"n">>)}
ScopeFieldsArgs ==
    {NilFields, MkFields((kLevel :> "a")), MkFields((kName :> "a") @@ (kLevel :> "a"))}
ScopeWithArgs == {NilFields, MkFields((kName :> "b"))}

\* the scopes derived from a logger whose field set, mapping and formatter
\* change after the derivation
NextScope ==
    \/ \E fmt \in {TextFormatter, JSONCompact} : SetFormatter(fmt)
    \/ \E f \in ScopeFieldsArgs : SetFields(f)
    \/ \E fm \in ScopeMappingArgs : SetFieldMapping(fm)
    \/ \E f \in ScopeWithArgs : WithScope(f)
    \/ \E msg \in Msgs : Info(msg)
    \/ \E s \in 1..Len(scopes), msg \in Msgs : scopedInfo(s, msg)
    \/ \E s \in 1..Len(scopes), f \in ScopeWithArgs : scopedWithScope(s, f)

SpecScope == InitBuffer /\ [][NextScope]_vars

\* the levels the callers of SpecFatal install hooks for
FatalHookLevels == {Nfo, Ftl}

\* Fatal and Fatalf, and Info for the other emissions, of a logger and of
\* its scopes, whatever the level, the writer and the hooks
NextFatal ==
    \/ \E l \in LogLevel : SetLogLevel(l)
    \/ \E w \in Writers : SetWriter(w)
    \/ \E l \in FatalHookLevels : InstallHook(l)
    \/ WithScope(NilFields)
    \/ \E msg \in Msgs :
          \/ Info(msg)
          \/ Fatalf(msg)
          \/ Fatal(msg)
    \/ \E s \in 1..Len(scopes), msg \in Msgs :
          \/ scopedInfo(s, msg)
          \/ scopedFatalf(s, msg)
          \/ scopedFatal(s, msg)

SpecFatal == Init /\ [][NextFatal]_vars

\* the levels a caller of the Text formatter lowers the minimum to
TextLevels == {Dbg, Nfo}

\* the entries of the Text formatter, for every level, message and field set
NextText ==
    \/ \E l \in TextLevels : SetLogLevel(l)
    \/ \E f \in FieldsArgs : SetFields(f)
    \/ \E msg \in TextMsgs :
          \/ Debug(msg)
          \/ Info(msg)
          \/ Warning(msg)
          \/ Error(msg)
          \/ Fatal(msg)

SpecText == InitBuffer /\ [][NextText]_vars

\* the fields the threads of SpecThreads set and derive scopes with
ThreadFieldsArgs == {MkFields((kName :> "a"))}

\* threads that emit through the logger and through its scopes while the
\* first of them also derives the scopes and sets the fields
NextThreads ==
    \/ \E f \in ThreadFieldsArgs : tMutator(1, "WithScope", f)
    \/ \E f \in ThreadFieldsArgs : tMutator(1, "SetFields", f)
    \/ \E t \in Threads :
        \/ tInfo(t)
        \/ \E s \in 1..Len(scopes) : tScopedInfo(t, s)
        \/ tStep(t)

SpecThreads == InitBuffer /\ [][NextThreads]_vars

\* the mapping the threads of SpecLocking add
ThreadMappingArgs == {(kName :> <<"n">>)}

\* threads that call every mutator, WithScope and the emissions of the
\* logger and of its scopes
NextLocking ==
    \E t \in Threads :
        \/ tMutator(t, "SetWriter", Nil)
        \/ tMutator(t, "SetFormatter", JSONFormatter)
        \/ tMutator(t, "SetStdOut", TRUE)
        \/ tMutator(t, "SetLogLevel", Dbg)
        \/ \E f \in ThreadFieldsArgs : tMutator(t, "SetFields", f)
        \/ \E fm \in ThreadMappingArgs : tMutator(t, "SetFieldMapping", fm)
        \/ tMutator(t, "InstallHook", Nfo)
        \/ \E f \in ThreadFieldsArgs : tMutator(t, "WithScope", f)
        \/ tDebug(t)
        \/ tInfo(t)
        \/ \E s \in 1..Len(scopes) : tScopedInfo(t, s)
        \/ tStep(t)
        \/ tHook(t)

SpecLocking == InitBuffer /\ [][NextLocking]_vars

\* threads that emit and clear the writer, the first of them also
\* installing the hooks
NextHooks ==
    \/ tMutator(1, "InstallHook", Nfo)
    \/ \E t \in Threads :
        \/ tMutator(t, "SetWriter", Nil)
        \/ tInfo(t)
        \/ tStep(t)
        \/ tHook(t)

SpecHooks == InitBuffer /\ [][NextHooks]_vars

\* the fields, the writers and the levels of the callers of SpecErrors: a
\* field value that cannot be marshalled and a file whose Write can fail
ErrorFieldsArgs == {MkFields((kName :> "a")), MkFields((kName :> "chan"))}
ErrorWriters == {Nil, "buf", FileWriter}
ErrorLevels == {Dbg, Wrn}
ErrorHookLevels == {Nfo, Err}

\* emissions whose formatting or whose write fails
NextErrors ==
    \/ \E fmt \in {TextFormatter, JSONFormatter} : SetFormatter(fmt)
    \/ \E f \in ErrorFieldsArgs : SetFields(f)
    \/ \E w \in ErrorWriters : SetWriter(w)
    \/ \E b \in BOOLEAN : SetStdOut(b)
    \/ \E l \in ErrorLevels : SetLogLevel(l)
    \/ \E l \in ErrorHookLevels : InstallHook(l)
    \/ \E msg \in Msgs :
          \/ Debug(msg)
          \/ Info(msg)
          \/ Error(msg)

SpecErrors == InitBuffer /\ [][NextErrors]_vars

\* the arguments of the callers of SpecConfig
ConfigLevels == {Dbg, Wrn}
ConfigFieldsArgs == {NilFields, MkFields((kName :> "a"))}

\* the mutators of the core logger and Configure
NextConfig ==
    \/ \E l \in ConfigLevels : SetLogLevel(l)
    \/ \E b \in BOOLEAN : SetStdOut(b)
    \/ \E w \in Writers : SetWriter(w)
    \/ \E fmt \in Formatters : SetFormatter(fmt)
    \/ \E f \in ConfigFieldsArgs : SetFields(f)
    \/ \E fm \in ScopeMappingArgs : SetFieldMapping(fm)
    \/ InstallHook(Nfo)
    \/ \E cfg \in Configs : Configure(cfg)

SpecConfig == InitBuffer /\ [][NextConfig]_vars

\* the field sets the callers of SpecDerive set on the logger and derive
\* scopes with
DeriveParents == {NilFields, MkFields((kLevel :> "a"))}
DeriveFieldsArgs ==
    {NilFields, MkFields((kName :> "a")), MkFields((kName :> "b") @@ (kExtra :> "b"))}

\* scopes derived from the logger and from its scopes
NextDerive ==
    \/ \E f \in DeriveParents : SetFields(f)
    \/ \E f \in DeriveFieldsArgs : WithScope(f)
    \/ \E s \in 1..Len(scopes), f \in DeriveFieldsArgs : scopedWithScope(s, f)
    \/ \E msg \in Msgs : Info(msg)
    \/ \E s \in 1..Len(scopes), msg \in Msgs : scopedInfo(s, msg)

SpecDerive == InitBuffer /\ [][NextDerive]_vars

\* the field sets the threads of SpecTorn set on the logger, and the fields
\* they derive scopes with
TornParents ==
    {MkFields((kName :> "a") @@ (kExtra :> "a")), MkFields((kName :> "b") @@ (kExtra :> "b"))}
TornFieldsArgs == {MkFields((kLevel :> "a"))}

\* threads that derive scopes while others set the fields of the logger
NextTorn ==
    \E t \in Threads :
        \/ \E f \in TornParents : tMutator(t, "SetFields", f)
        \/ \E f \in TornFieldsArgs : tMutator(t, "WithScope", f)
        \/ tMutatorLock(t)
        \/ tMutate(t)

SpecTorn == InitBuffer /\ [][NextTorn]_vars

\* the logger is as newLogger("buf", Nfo, FALSE) made it
AsNew ==
    /\ writer = "buf"
    /\ logLevel = Nfo
    /\ ~stdOut
    /\ formatter = TextFormatter
    /\ NumHooks = 0

\* the levels the callers of SpecParent set and install hooks for
ParentLevels == {Dbg, Err}
ParentHookLevels == {Dbg, Err}

\* callers that derive scopes from the logger as New made it, change the
\* level, the sinks, the formatter and the hooks of the logger afterwards,
\* and emit through the scopes
NextParent ==
    \/ AsNew /\ WithScope(NilFields)
    \/ \E l \in ParentLevels : SetLogLevel(l)
    \/ \E w \in Writers : SetWriter(w)
    \/ \E b \in BOOLEAN : SetStdOut(b)
    \/ \E fmt \in {TextFormatter, JSONFormatter} : SetFormatter(fmt)
    \/ \E l \in ParentHookLevels : InstallHook(l)
    \/ \E s \in 1..Len(scopes), msg \in Msgs :
          \/ scopedDebug(s, msg)
          \/ scopedDebugf(s, msg)
          \/ scopedError(s, msg)

SpecParent == InitBuffer /\ [][NextParent]_vars

\* the maps the callers of SpecAlias make
AliasMaps == {EmptyMap, (kName :> "a")}

\* callers that keep the map they give to SetFields and to WithScope, write
\* to it afterwards, and emit through the logger and its scopes
NextAlias ==
    \/ \E m \in AliasMaps : CallerMakes(m)
    \/ SetFieldsHeld
    \/ \E k \in CallerKeys, v \in CallerVals : CallerWrites(k, v)
    \/ WithScope(held)
    \/ \E s \in 1..Len(scopes) : scopedWithScope(s, held)
    \/ SetFormatter(JSONFormatter)
    \/ \E msg \in Msgs : Info(msg)
    \/ \E s \in 1..Len(scopes), msg \in Msgs : scopedInfo(s, msg)

SpecAlias == InitBuffer /\ [][NextAlias]_vars

\* the threads that emit in SpecClock
ClockThreads == {1, 2}

\* two threads that emit on a logger with a writer, each reading the time
\* when its call starts
NextClock ==
    \E t \in ClockThreads :
        \/ tInfo(t)
        \/ tGetFields(t)
        \/ tGetFieldMapping(t)
        \/ tGetBufferNow(t)
        \/ tLock(t)
        \/ tGetTimestamp(t)
        \/ tFormat(t)
        \/ tWrite(t)
        \/ tUnlock(t)
        \/ tPut(t)

SpecClock == InitBuffer /\ [][NextClock]_vars

\* New(buf, Dbg, false)
InitDebug == newLogger("buf", Dbg, FALSE)

\* the level the first thread of SpecLevel sets
LevelArgs == {Nfo}

\* threads that call Debug on the logger and on its scopes while the first
\* of them sets the level, installs a Debug hook and derives a scope
NextLevel ==
    \/ \E l \in LevelArgs : tMutator(1, "SetLogLevel", l)
    \/ tMutator(1, "InstallHook", Dbg)
    \/ tMutator(1, "WithScope", NilFields)
    \/ \E t \in Threads :
        \/ tDebug(t)
        \/ \E s \in 1..Len(scopes) : tScopedDebug(t, s)
        \/ tStep(t)
        \/ tHook(t)

SpecLevel == InitDebug /\ [][NextLevel]_vars

\* the Config of the caller of SpecConfigure: the Debug level, the standard
\* streams, the JSON formatter and no writer
ThreadConfig ==
    [LogLevel |-> Dbg, StdOut |-> TRUE, Formatter |-> JSONFormatter, Path |-> "",
     TruncateOnStart |-> FALSE, Writer |-> Nil]

\* the first thread calls Configure while the others emit
NextConfigure ==
    \/ tConfigure(1, ThreadConfig)
    \/ tConfigureLock(1)
    \/ tConfigureSet(1)
    \/ \E t \in Threads \ {1} :
        \/ tDebug(t)
        \/ tInfo(t)
        \/ tGetFields(t)
        \/ tGetFieldMapping(t)
        \/ tGetBuffer(t)
        \/ tLock(t)
        \/ tGetTimestamp(t)
        \/ tFormat(t)
        \/ tWrite(t)
        \/ tUnlock(t)
        \/ tPut(t)

SpecConfigure == InitBuffer /\ [][NextConfigure]_vars

\* threads that emit on a logger with hooks that return at once and hooks
\* that call the logger
NextReentry ==
    \/ tMutator(1, "InstallHook", Nfo)
    \/ \E t \in Threads :
        \/ tInfo(t)
        \/ tStep(t)
        \/ tHook(t)
        \/ \E c \in HookMethods : tHookCalls(t, c)

\* a thread that can take the next step of its call takes it in the end, and
\* a hook that is called returns unless it waits for the logger
SpecReentry ==
    /\ InitBuffer
    /\ [][NextReentry]_vars
    /\ \A t \in Threads : WF_vars(tStep(t) \/ tHook(t))

----------------------------------------------------------------------------
(* Properties *)

EmitOps == {"Debugf", "Debug", "Infof", "Info", "Warningf", "Warning",
            "Errorf", "Error", "Fatalf", "Fatal"}

\* the last call was an emission method
Emitted == last.op \in EmitOps

\* the elements of a sequence
Range(q) == {q[i] : i \in DOMAIN q}

\* C1: a level-L emission method of the core logger writes an entry to the
\* configured writer if and only if L is at least the minimum level (with
\* the minimum at Fatal, the Debug, Info, Warning and Error methods write
\* nothing).  wlog_test.go (TestLogLevel) expects this; the pipeline of
\* wlog.go checks the level in Debug and Debugf only.
C1_WritesIffAtLeastMinimum ==
    (Emitted /\ last.src = 0 /\ writer # Nil) => (last.wrote <=> last.level >= last.min)

\* C2: an emission below the minimum level invokes no formatter, writes to
\* no writer and no standard stream, and invokes no hook.
C2_BelowMinimumIsSilent ==
    (Emitted /\ last.level < last.min) =>
        /\ ~last.formatted
        /\ ~last.wrote
        /\ last.stream = "none"
        /\ last.hookCalls = <<>>

\* C3: an emission at level L that runs the pipeline invokes every hook
\* installed for L exactly once, in the order of installation, no hook of
\* another level, and gives each hook the level L; a Debug call that returns
\* early invokes none.
C3_HooksOfLevelOnceInOrder ==
    Emitted =>
        LET hc == last.hookCalls
            L  == last.level
        IN  IF last.formatted
            THEN /\ {hc[i].hook : i \in DOMAIN hc} = Range(hooks[L])
                 /\ Len(hc) = Len(hooks[L])
                 /\ \A i, j \in DOMAIN hc : i < j => hc[i].hook < hc[j].hook
                 /\ \A i \in DOMAIN hc : hc[i].level = L
                 /\ \A i \in DOMAIN hc : \A l \in LogLevel \ {L} : hc[i].hook \notin Range(hooks[l])
            ELSE hc = <<>>

\* an Error entry was emitted with two hooks installed for Error and one for
\* another level
C3_Witness ==
    /\ Emitted /\ last.formatted /\ last.level = Err
    /\ Len(hooks[Err]) = 2
    /\ Len(hooks[Nfo]) = 1
    /\ Len(last.hookCalls) = 2

\* C4: the field set of the scope WithScope(F) returns on a core logger with
\* field set P is the union of P and F with F's value for the keys of both;
\* for disjoint keys it has |P| + |F| entries.
C4_ScopeFieldsAreUnion ==
    last.op = "WithScope" =>
        LET sc == scopes[last.src].fields.m
            P  == fields.m
            F  == last.arg.m
        IN  /\ ~scopes[last.src].fields.nil
            /\ DOMAIN sc = DOMAIN P \cup DOMAIN F
            /\ \A k \in DOMAIN F : sc[k] = F[k]
            /\ \A k \in DOMAIN P \ DOMAIN F : sc[k] = P[k]
            /\ (DOMAIN P \cap DOMAIN F = {}) =>
                   Cardinality(DOMAIN sc) = Cardinality(DOMAIN P) + Cardinality(DOMAIN F)

\* WithScope(F) where F gives another value to a field of the logger and the
\* logger has a field F lacks
C4_Witness ==
    /\ last.op = "WithScope"
    /\ \E k \in DOMAIN fields.m \cap DOMAIN last.arg.m : fields.m[k] # last.arg.m[k]
    /\ DOMAIN fields.m \ DOMAIN last.arg.m # {}

\* the fields a Text entry lists
ListedFields(e) == {e.flds[i] : i \in DOMAIN e.flds}

\* the fields of the scope s as key-value pairs
ScopeFieldPairs(s) == {<<k, scopes[s].fields.m[k]>> : k \in DOMAIN scopes[s].fields.m}

\* C5: a SetFields call on the core logger leaves the field set of every
\* scope derived before it unchanged, and an entry emitted through a scope
\* lists the fields of the scope, whatever SetFields has made of the fields
\* of the logger since the scope was derived.
C5_SetFieldsLeavesScopes ==
    /\ [][last'.op = "SetFields" =>
            \A s \in 1..Len(scopes) : scopedGetFields(s)' = scopedGetFields(s)]_vars
    /\ []((Emitted /\ last.formatted /\ last.src >= 1 /\ formatter = TextFormatter) =>
            ListedFields(last.entry) = ScopeFieldPairs(last.src))

\* a Text entry was emitted through a scope that has fields while the logger
\* has a field the scope lacks: SetFields was called after the scope was
\* derived
C5_Witness ==
    /\ Emitted /\ last.formatted /\ last.src >= 1
    /\ formatter = TextFormatter
    /\ DOMAIN fields.m \ DOMAIN scopes[last.src].fields.m # {}
    /\ scopes[last.src].fields.m # EmptyMap

\* the key a custom field is written under in compact mode with mapping m
CompactKey(k, m) == IF k \in DOMAIN m THEN m[k] ELSE k

BuiltinCompactKeys == {<<"@", "m">>, <<"@", "t">>, <<"@", "l">>}

\* the last call emitted a compact JSON entry through a scope
ScopedCompactEntry == Emitted /\ last.formatted /\ last.src >= 1 /\ formatter = JSONCompact

C7_AtPrefixedEntryDropped ==
    last.op = "SetFieldMapping" =>
        \A k \in DOMAIN last.arg :
            IF k \in DOMAIN last.pre
            THEN fieldMapping[k] = last.pre[k]
            ELSE IF HasPrefixAt(last.arg[k])
                 THEN k \notin DOMAIN fieldMapping
                 ELSE k \in DOMAIN fieldMapping /\ fieldMapping[k] = last.arg[k]

\* C8: no short name of the active mapping begins with "@".  The three
\* entries newLogger installs (level, timestamp, message) begin with "@" by
\* design and are left out here: the statement is the weaker one, that no
\* other entry does, and its violation violates the claim as written too.
C8_NoAtPrefixedShortName ==
    \A k \in DOMAIN fieldMapping \ DOMAIN DefaultFieldMapping : ~HasPrefixAt(fieldMapping[k])

\* C9: SetFieldMapping(M) merges M into the mapping: every entry there
\* before the call is there after it with the same short name, also when M
\* has its key, and the keys only M has are added with M's short name.
C9_SetFieldMappingMerges ==
    last.op = "SetFieldMapping" =>
        /\ DOMAIN fieldMapping = DOMAIN last.pre \cup DOMAIN last.arg
        /\ \A k \in DOMAIN last.pre : fieldMapping[k] = last.pre[k]
        /\ \A k \in DOMAIN last.arg \ DOMAIN last.pre : fieldMapping[k] = last.arg[k]

\* SetFieldMapping(M) where M gives another short name to a mapped key and
\* has a key that was not mapped
C9_Witness ==
    /\ last.op = "SetFieldMapping"
    /\ \E k \in DOMAIN last.arg \cap DOMAIN last.pre : last.arg[k] # last.pre[k]
    /\ DOMAIN last.arg \ DOMAIN last.pre # {}

\* the last call emitted a compact JSON entry
CompactEntry == Emitted /\ last.formatted /\ formatter = JSONCompact

NonCompactEntry == Emitted /\ last.formatted /\ formatter = JSONFormatter

\* the built-in members of a non-compact entry, as the decoder reads them
BuiltinMembers ==
    (kMessage :> Chars(last.msg)) @@ (kTimestamp :> Chars(last.now)) @@
    (kLevel :> Chars(LevelString(last.level)))

kMsg == <<"m", "s", "g">>

\* C12: the non-compact JSON line of an Info event on a logger with one
\* field (none of the built-in names) is the object with the four keys of
\* the field, level, msg and timestamp, the message under msg.
C12_MessageUnderMsg ==
    (NonCompactEntry /\ last.level = Nfo /\ DOMAIN last.arg.m = {kName}) =>
        LET d == Decode(last.entry.line)
        IN  /\ DOMAIN d = {kName, kLevel, kMsg, kTimestamp}
            /\ d[kMsg] = Chars(last.msg)

\* the last call emitted a JSON entry, compact or not
JSONEntry == Emitted /\ last.formatted /\ formatter \in {JSONFormatter, JSONCompact}

\* the keys of the built-in members in the mode of the formatter
BuiltinKeys ==
    IF formatter = JSONCompact THEN BuiltinCompactKeys ELSE {kMessage, kTimestamp, kLevel}

\* the key the custom field k is written under with mapping m
OutputKey(k, m) == IF formatter = JSONCompact THEN CompactKey(k, m) ELSE k

\* the output keys of the field set F differ from one another and from the
\* built-in keys
DistinctOutputKeys(F, m) ==
    /\ \A j, k \in DOMAIN F : j # k => OutputKey(j, m) # OutputKey(k, m)
    /\ \A k \in DOMAIN F : OutputKey(k, m) \notin BuiltinKeys

\* C13 as stated: the object decoded from a line of the JSON formatter has
\* the three built-in keys and one key for every field of the field set,
\* 3 + |F| keys in all.
C13_ThreePlusFieldsKeys ==
    JSONEntry =>
        LET d == Decode(last.entry.line)
            F == last.arg.m
        IN  /\ DOMAIN d = BuiltinKeys \cup {OutputKey(k, last.pre) : k \in DOMAIN F}
            /\ Cardinality(DOMAIN d) = 3 + Cardinality(DOMAIN F)

\* C13 as amended: the keys of the decoded object are the built-in keys and
\* the output keys of the fields; they are 3 + |F| and every field has its
\* value under its output key exactly when the output keys differ from one
\* another and from the built-in keys, and fewer otherwise.
C13_KeysUpToCollisions ==
    JSONEntry =>
        LET d == Decode(last.entry.line)
            F == last.arg.m
        IN  /\ DOMAIN d = BuiltinKeys \cup {OutputKey(k, last.pre) : k \in DOMAIN F}
            /\ IF DistinctOutputKeys(F, last.pre)
               THEN /\ Cardinality(DOMAIN d) = 3 + Cardinality(DOMAIN F)
                    /\ \A k \in DOMAIN F : d[OutputKey(k, last.pre)] = Chars(F[k])
               ELSE Cardinality(DOMAIN d) < 3 + Cardinality(DOMAIN F)

\* a compact entry of the fields name and extra, name renamed by the
\* mapping: five keys
C13_Witness ==
    /\ JSONEntry /\ formatter = JSONCompact
    /\ DOMAIN last.arg.m = {kName, kExtra}
    /\ kName \in DOMAIN last.pre
    /\ DistinctOutputKeys(last.arg.m, last.pre)
    /\ Cardinality(DOMAIN Decode(last.entry.line)) = 5

\* C14: with standard-stream output enabled an entry of level Debug, Info or
\* Warning goes to standard output and an entry of level Error or Fatal to
\* standard error, each to that stream only; with it disabled the entry goes
\* to neither.
C14_StdStreamRouting ==
    (Emitted /\ last.formatted) =>
        IF stdOut
        THEN /\ last.level \in {Dbg, Nfo, Wrn} => last.stream = "stdout"
             /\ last.level \in {Err, Ftl} => last.stream = "stderr"
        ELSE last.stream = "none"

\* a Warning entry went to standard output
C14_Witness ==
    /\ Emitted /\ last.formatted /\ last.level = Wrn
    /\ stdOut
    /\ last.stream = "stdout"

\* the last call was Fatal or Fatalf, of the logger or of a scope
FatalCalled == last.op \in {"Fatal", "Fatalf"}

\* C16: a Fatal or Fatalf call, of the logger or of a scope and whatever the
\* minimum level and the writer, runs the pipeline for a Fatal entry, the
\* hooks of Fatal included, and then terminates the process; once the
\* process has terminated no call writes an entry or runs a hook.
C16_FatalWritesThenExits ==
    /\ [](FatalCalled =>
            /\ last.formatted
            /\ last.level = Ftl
            /\ last.wrote = (writer # Nil)
            /\ Len(last.hookCalls) = Len(hooks[Ftl])
            /\ \A i \in DOMAIN last.hookCalls : last.hookCalls[i].hook = hooks[Ftl][i]
            /\ exited)
    /\ [][exited => last' = last]_vars

\* Fatalf of a scope with the minimum level at Fatal, no writer and two
\* hooks for Fatal
C16_Witness ==
    /\ last.op = "Fatalf" /\ last.src >= 1
    /\ logLevel = Ftl
    /\ writer = Nil
    /\ Len(last.hookCalls) = 2
    /\ exited

\* C18: an entry emitted through a scope is formatted by the JSON formatter,
\* also when the formatter of the logger is the Text formatter newLogger
\* installs.
C18_ScopeFormatsJSON ==
    (Emitted /\ last.formatted /\ last.src >= 1 /\ formatter = TextFormatter) =>
        last.entry.kind = "json"

\* the last call emitted a Text entry
TextEntry == Emitted /\ last.formatted /\ formatter = TextFormatter

\* the three letters of a level
LevelLetters(l) ==
    CASE l = Dbg -> <<"D", "B", "G">>
      [] l = Nfo -> <<"N", "F", "O">>
      [] l = Wrn -> <<"W", "R", "N">>
      [] l = Err -> <<"E", "R", "R">>
      [] l = Ftl -> <<"F", "T", "L">>

\* the fields of F in the order o as "k: v", with ", " before each but the
\* first
RECURSIVE JoinedFields(_, _, _)
JoinedFields(F, o, n) ==
    IF n = 0 THEN <<>>
    ELSE JoinedFields(F, o, n - 1) \o (IF n > 1 THEN <<",", " ">> ELSE <<>>) \o
         o[n] \o <<":", " ">> \o Chars(F[o[n]])

\* the message ends in a newline
EndsInNewline(msg) == Len(Chars(msg)) > 0 /\ Chars(msg)[Len(Chars(msg))] = "\n"

\* C19: a Text entry is the timestamp, a space, the three letters of the
\* level and a space, the message, then for a non-empty field set a space
\* and the fields as [k: v, ...] in some order, then a newline unless the
\* message ends in one; Warning("low disk") without fields gives
\* "<ts> WRN low disk\n".
C19_TextLine ==
    TextEntry =>
        LET F == last.arg.m
            head == Chars(last.now) \o <<" ">> \o LevelLetters(last.level) \o <<" ">> \o
                    Chars(last.msg)
            tail == IF EndsInNewline(last.msg) THEN <<>> ELSE <<"\n">>
        IN  /\ IF DOMAIN F = {}
               THEN last.entry.line = head \o tail
               ELSE \E o \in RangeOrders(F) :
                        last.entry.line =
                            head \o <<" ", "[">> \o JoinedFields(F, o, Len(o)) \o <<"]">> \o tail
            /\ (last.level = Wrn /\ last.msg = "low disk" /\ DOMAIN F = {}) =>
                   last.entry.line =
                       <<last.now, " ", "W", "R", "N", " ",
                         "l", "o", "w", " ", "d", "i", "s", "k", "\n">>

\* a Text entry of Warning("low disk") with two fields
C19_Witness ==
    /\ TextEntry
    /\ last.level = Wrn /\ last.msg = "low disk"
    /\ Cardinality(DOMAIN last.arg.m) = 2

\* C20: every hook called for an entry is given the level of the entry, the
\* message the pipeline was given and the time the formatter was given.
C20_HookArguments ==
    (Emitted /\ last.formatted /\ last.entry.kind = "text") =>
        \A i \in DOMAIN last.hookCalls :
            /\ last.hookCalls[i].level = last.level
            /\ last.hookCalls[i].msg = last.msg
            /\ last.hookCalls[i].ts = last.entry.ts

\* two hooks were called for an entry
C20_Witness ==
    /\ Emitted /\ last.formatted
    /\ Len(last.hookCalls) = 2
    /\ last.entry.ts = "t2"

\* C15: every Write call the writer receives carries the bytes of exactly
\* one entry, the entry of the thread that calls it: a line the formatter
\* makes of the level, message, time, fields and mapping of that call, with
\* no byte of another entry or of an earlier use of the buffer.
C15_WriteCarriesOneEntry ==
    sink.thread # 0 =>
        sink.bytes \in {e.line : e \in Format(sink.fmt, sink.level, sink.msg, sink.now,
                                               sink.fields, sink.mapping)}

\* the third emission of two threads: a thread has written its entry from a
\* buffer that held the bytes of an earlier entry (the two buffers there are
\* were both used by the first emission), while the other thread waits for
\* the mutex with its own entry buffer
C15_Witness ==
    /\ sink.thread = 2
    /\ pc[2] = "unlock"
    /\ pc[1] = "lock"
    /\ frame[1].buf # 0
    /\ Len(buffers) = 2
    /\ calls = 3
    /\ Len(scopes) = 0
    /\ fields = SetFieldsResult(NilFields)
    /\ sink.bytes = Chars("t1") \o <<" ">> \o Chars("NFO ") \o Chars("low disk") \o <<"\n">>

\* C17: whenever a step of a mutator, of WithScope or of an emission reads
\* or writes the writer, the formatter, the standard-stream flag, the fields,
\* the field mapping or the hooks of the logger, the thread taking the step
\* holds the mutex; only the minimum level is read without it.
C17_AccessUnderLock ==
    \A a \in access : a.field # "logLevel" => a.locked

\* the configuration of the core logger
Configuration == <<writer, logLevel, stdOut, formatter, fields, fieldMapping, hooks>>

\* the standard stream and the hook calls of the entry of the last call, by
\* the configuration of the logger
ExpectedStream ==
    IF stdOut THEN (IF last.level > Wrn THEN "stderr" ELSE "stdout") ELSE "none"
ExpectedHookCalls ==
    [i \in 1..Len(hooks[last.level]) |->
        [hook |-> hooks[last.level][i], ts |-> last.now, level |-> last.level,
         msg |-> last.msg]]

\* C21: when the formatter returns an error for an entry, the writer, when
\* one is set, is still called once with what the buffer holds, the standard
\* stream is still written when enabled, the hooks of the level are still
\* called, and the method returns with the configuration as it was.
C21_FormatErrorDoesNotAbort ==
    /\ []((Emitted /\ last.fmtErr) =>
            /\ last.wrote = (writer # Nil)
            /\ last.writeCalls = (IF writer # Nil THEN 1 ELSE 0)
            /\ last.wrote => last.bytes = last.entry.line
            /\ last.stream = ExpectedStream
            /\ last.hookCalls = ExpectedHookCalls
            /\ exited = (last.op \in {"Fatal", "Fatalf"}))
    /\ [][(last'.op \in EmitOps /\ last'.fmtErr) => Configuration' = Configuration]_vars

\* an Error entry the JSON formatter could not encode went to the writer,
\* to standard error and to a hook
C21_Witness ==
    /\ Emitted
    /\ last.fmtErr
    /\ last.level = Err
    /\ last.wrote
    /\ last.bytes = <<>>
    /\ last.stream = "stderr"
    /\ Len(last.hookCalls) >= 1

\* C22: for an entry at or above the minimum level Write is called once on
\* the writer, and not at all when none is set; when the call fails the
\* standard stream is still written when enabled, the hooks of the level are
\* still called, and the writer stays installed.
C22_WriteOnceNoRetry ==
    /\ []((Emitted /\ last.level >= last.min) =>
            /\ last.formatted
            /\ last.writeCalls = (IF writer # Nil THEN 1 ELSE 0)
            /\ last.writeErr =>
                  /\ last.stream = ExpectedStream
                  /\ last.hookCalls = ExpectedHookCalls)
    /\ [][last'.op \in EmitOps => writer' = writer]_vars

\* the Write of a file failed for an Info entry, which went to standard
\* output and to a hook, and the file is still the writer
C22_Witness ==
    /\ Emitted
    /\ last.level = Nfo
    /\ last.writeErr
    /\ last.writeCalls = 1
    /\ last.stream = "stdout"
    /\ Len(last.hookCalls) >= 1
    /\ writer = FileWriter

\* C23: SetLogLevel, SetStdOut, SetWriter, SetFormatter and SetFields each
\* assign their argument to their own component of the logger (SetFields an
\* empty set for nil) and leave every other component, the hooks and the
\* field mapping among them, as it was.
C23_SettersChangeOwnComponent ==
    [][/\ last'.op = "SetLogLevel" =>
            /\ logLevel' = last'.arg
            /\ UNCHANGED <<writer, stdOut, formatter, fields, fieldMapping, hooks, scopes>>
       /\ last'.op = "SetStdOut" =>
            /\ stdOut' = last'.arg
            /\ UNCHANGED <<writer, logLevel, formatter, fields, fieldMapping, hooks, scopes>>
       /\ last'.op = "SetWriter" =>
            /\ writer' = last'.arg
            /\ UNCHANGED <<logLevel, stdOut, formatter, fields, fieldMapping, hooks, scopes>>
       /\ last'.op = "SetFormatter" =>
            /\ formatter' = last'.arg
            /\ UNCHANGED <<writer, logLevel, stdOut, fields, fieldMapping, hooks, scopes>>
       /\ last'.op = "SetFields" =>
            /\ fields'.m = last'.arg.m
            /\ UNCHANGED <<writer, logLevel, stdOut, formatter, fieldMapping, hooks, scopes>>
      ]_vars

\* SetFields has set the fields of a logger that has the compact JSON
\* formatter, a hook and an added mapping
C23_Witness ==
    /\ last.op = "SetFields"
    /\ fields = MkFields((kName :> "a"))
    /\ formatter = JSONCompact
    /\ Len(hooks[Nfo]) >= 1
    /\ kName \in DOMAIN fieldMapping
    /\ stdOut

\* C25: when Configure(cfg) has returned, the minimum level is cfg.LogLevel,
\* the standard-stream flag is cfg.StdOut, the formatter is cfg.Formatter
\* when that is not nil and the one before otherwise, and the writer is
\* cfg.Writer (none when it is nil) when cfg.Path is empty and the opened
\* file otherwise.
C25_ConfigureApplies ==
    last.op = "Configure" =>
        /\ logLevel = last.arg.LogLevel
        /\ stdOut = last.arg.StdOut
        /\ formatter = (IF last.arg.Formatter # Nil THEN last.arg.Formatter ELSE last.pre)
        /\ last.arg.Path = "" => writer = last.arg.Writer
        /\ last.arg.Path # "" => writer = FileWriter

\* Configure with an empty path, no writer and no formatter has cleared the
\* writer of a logger and left its compact formatter
C25_Witness ==
    /\ last.op = "Configure"
    /\ last.arg.Path = ""
    /\ last.arg.Writer = Nil
    /\ last.arg.Formatter = Nil
    /\ last.arg.StdOut
    /\ writer = Nil
    /\ formatter = JSONCompact
    /\ logLevel = Err

\* C24: the field set of the core logger and of every scope is a map, never
\* nil: SetFields(nil) installs an empty set, and WithScope(nil) on the logger
\* or on a scope gives a scope with exactly the fields of its parent.
C24_FieldsNeverNil ==
    /\ ~fields.nil
    /\ \A s \in 1..Len(scopes) : ~scopes[s].fields.nil
    /\ (last.op = "SetFields" /\ last.arg.nil) => DOMAIN fields.m = {}
    /\ (last.op = "WithScope" /\ last.arg.nil) => scopes[last.src].fields.m = fields.m
    /\ (last.op = "scopedWithScope" /\ last.arg.nil) =>
            scopes[last.src].fields.m = scopes[last.pre].fields.m

\* SetFields(nil) has emptied the fields of a logger from which a scope with
\* a field was derived by WithScope(nil)
C24_Witness ==
    /\ last.op = "SetFields"
    /\ last.arg.nil
    /\ Len(scopes) >= 1
    /\ DOMAIN scopes[1].fields.m = {kLevel}

\* X with the entries of Y over it
Over(X, Y) == [k \in DOMAIN X \cup DOMAIN Y |-> IF k \in DOMAIN Y THEN Y[k] ELSE X[k]]

\* C28: WithScope(B) on a scope gives a scope bound to the core logger; for
\* every field set P of the logger and every A with which WithScope(A) gives
\* the fields of the scope, the new scope has the fields WithScope(A merged
\* with B, B winning) gives on the logger; and the scopes there were are left
\* as they were.
C28_DerivationFlattens ==
    [][last'.op = "scopedWithScope" =>
         LET S == scopes[last'.pre].fields.m
             N == scopes'[last'.src]
             B == last'.arg.m
         IN  /\ N.logger = 0
             /\ ~N.fields.nil
             /\ \A P \in DeriveParents, A \in DeriveFieldsArgs :
                    S = Over(P.m, A.m) => N.fields.m = Over(P.m, Over(A.m, B))
             /\ \A s \in 1..Len(scopes) : scopes'[s] = scopes[s]
      ]_vars

\* the scope WithScope(B) gives on the scope WithScope(A) of a logger with a
\* field, where B has another value for the field of A and a field of its own
C28_Witness ==
    /\ last.op = "scopedWithScope"
    /\ last.arg.m = (kName :> "b") @@ (kExtra :> "b")
    /\ scopes[last.pre].fields.m = (kLevel :> "a") @@ (kName :> "a")
    /\ scopes[last.src].fields.m = (kLevel :> "a") @@ (kName :> "b") @@ (kExtra :> "b")

\* C26: the hooks of an entry run on the thread that emits it and with the
\* mutex held: from the write of the entry until its last hook has returned
\* no other thread writes an entry or calls a hook, and no mutator changes
\* the logger.
C26_HooksRunUnderLock ==
    /\ [](\A t \in Threads : pc[t] = "hooks" => mutex = t)
    /\ [][\A t \in Threads : pc[t] = "hooks" =>
             /\ sink' = sink
             /\ \A u \in Threads \ {t} :
                    /\ pc[u] = "write" => pc'[u] = "write"
                    /\ frame'[u].hook <= frame[u].hook
             /\ Configuration' = Configuration]_vars

\* a thread has written its entry and its hook has not returned yet, while
\* another thread waits for the mutex to emit or to change the logger
C26_Witness ==
    \E t, u \in Threads :
        /\ pc[t] = "hooks"
        /\ sink.thread = t
        /\ Len(frame[t].hooks) = 1
        /\ frame[t].hook = 0
        /\ pc[u] \in {"lock", "mutatorLock"}

\* the field sets the logger of SpecTorn has had: the one New gave it and
\* the ones SetFields installs
TornParentSets == {EmptyMap} \cup {P.m : P \in TornParents}

\* C29: when WithScope(F) runs while other threads call SetFields, the fields
\* of the scope are F over one complete field set of the logger, the one
\* before or the one after each SetFields, never entries of two of them.
C29_ScopeOfOneParentSet ==
    \A s \in 1..Len(scopes) :
        \E P \in TornParentSets, F \in TornFieldsArgs :
            scopes[s].fields.m = Over(P, F.m)

\* the threads have set the first field set, derived a scope from it and
\* set the second field set: the scope has the first set whole
C29_Witness ==
    /\ Len(scopes) = 1
    /\ scopes[1].fields.m = (kName :> "a") @@ (kExtra :> "a") @@ (kLevel :> "a")
    /\ fields.m = (kName :> "b") @@ (kExtra :> "b")
    /\ calls = 3
    /\ \A t \in Threads : pc[t] = "idle"

BuiltinValue(K) ==
    IF K \in {kMessage, <<"@", "m">>} THEN Chars(last.msg)
    ELSE IF K \in {kTimestamp, <<"@", "t">>} THEN Chars(last.now)
    ELSE Chars(LevelString(last.level))

\* C30: when the output key of a custom field (its short name or own name in
\* compact mode, its own name otherwise) is the key of a built-in member, the
\* object decoded from the line has the value of a custom field with that
\* output key under it, and the built-in value is not in the object; so for
\* a field named level in compact mode, which the default mapping sends to
\* @l.
C30_CustomFieldWinsCollision ==
    JSONEntry =>
        LET d == Decode(last.entry.line)
            F == last.arg.m
        IN  \A k \in DOMAIN F :
                LET K == OutputKey(k, last.pre)
                IN  K \in BuiltinKeys =>
                        /\ K \in DOMAIN d
                        /\ \E j \in DOMAIN F :
                              OutputKey(j, last.pre) = K /\ d[K] = Chars(F[j])
                        /\ d[K] # BuiltinValue(K)

\* a compact entry of a logger with the field level and the mapping New
\* gave it: the field's value is under @l
C30_Witness ==
    /\ JSONEntry /\ formatter = JSONCompact
    /\ kLevel \in DOMAIN last.arg.m
    /\ last.pre = DefaultFieldMapping
    /\ Decode(last.entry.line)[<<"@", "l">>] = Chars(last.arg.m[kLevel])
    /\ Cardinality(DOMAIN Decode(last.entry.line)) = 3

\* C38: every entry of the Text formatter ends with a newline, whatever the
\* message (empty, ending in a newline or not) and the field set (empty or
\* not).  TextFormatter.Format writes the fields after the message and the
\* newline only when the message does not end in one.
C38_TextEntryEndsInNewline ==
    TextEntry =>
        /\ Len(last.entry.line) > 0
        /\ last.entry.line[Len(last.entry.line)] = "\n"

\* C35: when an emission of the core logger formats its entry while no
\* SetFields or SetFieldMapping call is in progress, the entry is rendered
\* with the field set and the mapping the logger has then, those of the last
\* SetFields and SetFieldMapping calls that returned, also when the emission
\* started before them.  logger.write reads both before the mutex is taken.
C35_RenderedWithCurrentFields ==
    \A t \in Threads :
        (/\ pc[t] = "write"
         /\ frame[t].src = 0
         /\ \A u \in Threads : frame[u].op \notin {"SetFields", "SetFieldMapping"})
        => buffers[frame[t].buf] \in
               {e.line : e \in Format(frame[t].fmt, frame[t].level, frame[t].msg,
                                       frame[t].now, fields, fieldMapping)}

\* C31: once SetFields(F) has returned, a statement F[k] = v of the caller
\* changes neither the field set of the logger, which its entries render and
\* the scopes derived afterwards inherit, nor the fields of a scope.
\* SetFields keeps the map F itself.
C31_CallerWriteNotSeen ==
    [][last'.op = "CallerWrites" => (fields' = fields /\ scopes' = scopes)]_vars

Writes(t) == pc[t] = "write" /\ pc'[t] # "write"

\* C34 as stated: the entries reach the writer in the order of their
\* timestamps: the timestamp of an entry is not before that of the entry the
\* writer received last.
C34_SinkInTimestampOrder ==
    [][\A t \in Threads :
         (Writes(t) /\ sink.thread # 0) => TimeRank(sink'.now) >= TimeRank(sink.now)]_vars

\* C34, amended: the entries reach the writer in the order in which their
\* emissions took the mutex (between the lock and the write of an emission no
\* other entry is written), and an entry carries the time its call read
\* before the lock, which is not before the timestamp of any entry written
\* before that reading.
C34_SinkInLockOrder ==
    /\ [](/\ TimeRank(sink.now) <= clock
          /\ \A t \in Threads : pc[t] \in {"timestamp", "format", "write"} => mutex = t)
    /\ [][\A t \in Threads :
            /\ pc[t] \in {"timestamp", "format", "write"} =>
                   \A u \in Threads \ {t} : ~Writes(u)
            /\ (pc[t] = "get" /\ pc'[t] = "lock") =>
                   /\ TimeRank(frame'[t].now) >= clock
                   /\ TimeRank(frame'[t].now) >= TimeRank(sink.now)]_vars

\* the second thread read the later time, took the mutex first and wrote,
\* and the first thread, which had read the earlier time, wrote after it
C34_Witness ==
    /\ pc[2] = "put"
    /\ frame[2].now = "t2"
    /\ pc[1] = "unlock"
    /\ sink.thread = 1
    /\ sink.now = "t1"
    /\ clock = 2

\* thread t calls a hook of its entry in this step
CallsHook(t) == pc[t] = "hooks" /\ frame'[t].hook > frame[t].hook

\* C36 as stated: while the minimum level is above Debug, as SetLogLevel has
\* left it, no Debug entry is written and no Debug hook is called, not even
\* by a Debug call that was in progress when SetLogLevel ran.
C36_NoDebugAboveDebug ==
    [][logLevel > Dbg =>
         \A t \in Threads : frame[t].level = Dbg => (~Writes(t) /\ ~CallsHook(t))]_vars

\* C36, amended: a Debug call, on the logger or on a scope, that starts
\* while the minimum level is above Debug returns at once: it goes on to
\* write its entry and to call the Debug hooks only when the level was
\* Debug at its start, whatever the level is by the time it writes.
C36_DebugAdmittedAtStart ==
    [][\A t \in Threads :
         /\ (pc[t] = "idle" /\ pc'[t] # "idle" /\ frame'[t].level = Dbg) => logLevel <= Dbg
         /\ (frame[t].level = Dbg /\ (Writes(t) \/ CallsHook(t))) => frame'[t].op = "Debug"
      ]_vars

\* the level was raised to Info and a Debug hook installed, and a Debug call
\* made after that has returned at its level check: nothing has been written
C36_Witness ==
    /\ logLevel = Nfo
    /\ Len(hooks[Dbg]) = 1
    /\ calls = 3
    /\ \A t \in Threads : pc[t] = "idle"
    /\ access = {[field |-> "logLevel", locked |-> FALSE]}
    /\ sink.thread = 0

\* the standard-stream flag, the formatter and the writer of New in
\* SpecConfigure, and those of the Config
SettingsBefore == <<FALSE, TextFormatter, "buf">>
SettingsOfConfig == <<ThreadConfig.StdOut, ThreadConfig.Formatter, ThreadConfig.Writer>>

\* the flag, the formatter and the writer the entry thread t writes in this
\* step is processed with
SettingsUsed(t) == <<stdOut, frame[t].fmt, writer>>

\* C37 as stated: an entry written while Configure(cfg) may be running is
\* processed with the settings of before Configure or with those of cfg,
\* and with those of cfg when it is the entry of a Debug call that got past
\* the level check by the level of cfg.
C37_AllOldOrAllNew ==
    [][\A t \in Threads :
         Writes(t) =>
            /\ SettingsUsed(t) \in {SettingsBefore, SettingsOfConfig}
            /\ frame[t].op = "Debug" => SettingsUsed(t) = SettingsOfConfig]_vars

\* C37, amended: an entry is formatted and written with the flag, the
\* formatter and the writer the logger has while the emission holds the
\* mutex, which are those Configure has set so far: the settings of before
\* with those of cfg replacing them in the order flag, formatter, writer.
C37_SettingsOfOneMoment ==
    [][\A t \in Threads :
         Writes(t) =>
            /\ frame[t].fmt = formatter
            /\ SettingsUsed(t) \in
                  {SettingsBefore,
                   <<ThreadConfig.StdOut, TextFormatter, "buf">>,
                   <<ThreadConfig.StdOut, ThreadConfig.Formatter, "buf">>,
                   SettingsOfConfig}]_vars

\* an Info entry was written as JSON to the writer of before while
\* Configure, which has set the flag and the formatter, waits to set the
\* writer
C37_Witness ==
    \E t \in Threads :
        /\ pc[1] = "cfgLock"
        /\ frame[1].stage = 3
        /\ pc[t] = "unlock"
        /\ sink.thread = t
        /\ sink.fmt = JSONFormatter
        /\ stdOut
        /\ writer = "buf"

\* C33: every call returns to its caller, leaving the mutex to others, also
\* when a hook of its entry calls an emission method, InstallHook or a
\* setter of the same logger.  The hooks are called with the mutex held, and
\* the mutex is not reentrant.
C33_EmissionReturns ==
    \A t \in Threads : (pc[t] # "idle") ~> (pc[t] = "idle" /\ mutex # t)

====
